---- MODULE Spec2Model ----
(***************************************************************************)
(* Nexus AI Gateway: the routing and resilience engine of index.ts.        *)
(*                                                                         *)
(* The pool of tracked upstreams (metrics, circuit breaker, enabled flag), *)
(* the selector getNextService, the per-request failover loops of the      *)
(* chat-completions handler (streaming and non-streaming) and the          *)
(* lifecycle counters.  Time is the value Date.now() returns, in           *)
(* milliseconds; it advances in steps of TickMs.  JavaScript runs one      *)
(* callback at a time, so every action is the code between two awaits.     *)
(***************************************************************************)
EXTENDS Integers, Sequences, FiniteSets, TLC

\* ---------------------------------------------------------------- bounds
NumServices == 2      \* trackedServices.length
MaxChunks   == 2      \* chunks one adapter call yields at most
TickMs      == 30000  \* the clock advances in steps of TickMs
MaxTicks    == 2      \* the clock stops after MaxTicks steps
MaxToggles  == 1      \* toggle requests of one run
MaxTotal    == 5      \* attempts on the upstream of SpecBreaker
MaxSelects  == 2      \* selector calls of one run of SpecSelector
BootTime    == 1      \* Date.now() when the pool is created
RandomSteps == 2      \* Math.random() is u / RandomSteps, u in 0..RandomSteps-1
MaxLeadPolls == 2     \* poll intervals that may pass before the shutdown signal
RingSize    == 3      \* trackedServices.length in SpecRoundRobin
DrawSteps   == 16     \* in SpecSmart Math.random() is u / DrawSteps, u in 0..DrawSteps-1
MaxRounds   == 4      \* selector calls of one run of SpecRoundRobin
MaxHealth   == 2      \* GET /health requests of one run

\* ------------------------------------------------------------- CONFIG
firstTokenTimeoutMs    == 8000
errorPenaltyDurationMs == 30000
minRequestsForScoring  == 3
failureThreshold       == 3
resetTimeoutMs         == 60000
halfOpenMaxAttempts    == 1
initialDelayMs         == 100
maxDelayMs             == 2000
multiplier             == 2
shutdownTimeoutMs      == 10000
shutdownPollMs         == 100

Services == 0 .. (NumServices - 1)
\* The chat requests of one run.
Requests == {"r1"}
\* The model starts one clock step after the pool was created.
StartTime == BootTime + TickMs
MaxNow    == StartTime + MaxTicks * TickMs

\* An optional number that was never assigned (lastFailureTime?, lastErrorTime?).
Undefined == -1
\* getNextService returning null; "no upstream" in a request's tracked field.
None == -1

\* JavaScript truthiness of an optional number: undefined and 0 are falsy.
Truthy(x) == x # Undefined /\ x # 0

Max(a, b) == IF a >= b THEN a ELSE b
Min(a, b) == IF a <= b THEN a ELSE b

RECURSIVE Pow(_, _)
Pow(b, e) == IF e <= 0 THEN 1 ELSE b * Pow(b, e - 1)

\* The pool is sorted by descending provider priority, then instance id:
\* one groq key followed by gemini keys.
Provider(i) == IF i = 0 THEN "groq" ELSE "gemini"

createInitialMetrics ==
  [totalRequests |-> 0, successCount |-> 0, failCount |-> 0,
   totalLatencyMs |-> 0, lastError |-> "undefined", lastErrorTime |-> Undefined]

\* openedAt is not a field of the program: it is the history of the breaker,
\* the time of its last transition into OPEN, which no code reads.
createInitialCircuitBreaker ==
  [state |-> "CLOSED", failures |-> 0, lastFailureTime |-> Undefined,
   halfOpenAttempts |-> 0, openedAt |-> Undefined]

NewTracked ==
  [metrics |-> createInitialMetrics,
   circuitBreaker |-> createInitialCircuitBreaker,
   enabled |-> TRUE]

\* A tracked upstream after failureThreshold earlier attempts that all failed
\* in millisecond t0: the state recordFailure and the catch block leave behind.
TrippedAt(t0) ==
  [metrics |-> [totalRequests |-> failureThreshold, successCount |-> 0,
                failCount |-> failureThreshold, totalLatencyMs |-> 0,
                lastError |-> "error", lastErrorTime |-> t0],
   circuitBreaker |-> [state |-> "OPEN", failures |-> failureThreshold,
                       lastFailureTime |-> t0, halfOpenAttempts |-> 0,
                       openedAt |-> t0],
   enabled |-> TRUE]

\* ... in the millisecond the pool was created.
TrippedTracked == TrippedAt(BootTime)

\* ------------------------------------------------- 5. circuit breaker

\* Mutant of IsServiceAvailable: the reset timeout is compared with > .
IsServiceAvailableLate(tracked, t) ==
  LET cb == tracked.circuitBreaker IN
  CASE cb.state = "CLOSED" -> [ok |-> TRUE, tracked |-> tracked]
    [] cb.state = "OPEN" ->
         IF Truthy(cb.lastFailureTime)
            /\ (t - cb.lastFailureTime) > resetTimeoutMs
         THEN [ok |-> TRUE,
               tracked |-> [tracked EXCEPT !.circuitBreaker.state = "HALF_OPEN",
                                           !.circuitBreaker.halfOpenAttempts = 0]]
         ELSE [ok |-> FALSE, tracked |-> tracked]
    [] cb.state = "HALF_OPEN" ->
         [ok |-> cb.halfOpenAttempts < halfOpenMaxAttempts, tracked |-> tracked]
    [] OTHER -> [ok |-> TRUE, tracked |-> tracked]

\* isServiceAvailable(tracked) at Date.now() = t: the answer and the tracked
\* service after the call (the OPEN branch may move it to HALF_OPEN).
IsServiceAvailable(tracked, t) ==
  LET cb == tracked.circuitBreaker IN
  CASE cb.state = "CLOSED" -> [ok |-> TRUE, tracked |-> tracked]
    [] cb.state = "OPEN" ->
         IF Truthy(cb.lastFailureTime)
            /\ (t - cb.lastFailureTime) >= resetTimeoutMs
         THEN [ok |-> TRUE,
               tracked |-> [tracked EXCEPT !.circuitBreaker.state = "HALF_OPEN",
                                           !.circuitBreaker.halfOpenAttempts = 0]]
         ELSE [ok |-> FALSE, tracked |-> tracked]
    [] cb.state = "HALF_OPEN" ->
         [ok |-> cb.halfOpenAttempts < halfOpenMaxAttempts, tracked |-> tracked]
    [] OTHER -> [ok |-> TRUE, tracked |-> tracked]

\* Mutant of RecordSuccess: the HALF_OPEN success keeps the failures counter.
RecordSuccessKeepsFailures(tracked) ==
  LET cb == tracked.circuitBreaker IN
  IF cb.state = "HALF_OPEN"
  THEN [tracked EXCEPT !.circuitBreaker.state = "CLOSED",
                       !.circuitBreaker.halfOpenAttempts = 0]
  ELSE IF cb.state = "CLOSED"
  THEN [tracked EXCEPT !.circuitBreaker.failures = Max(0, cb.failures - 1)]
  ELSE tracked

\* Mutant of RecordSuccess: the CLOSED success resets the failures counter.
RecordSuccessResets(tracked) ==
  LET cb == tracked.circuitBreaker IN
  IF cb.state = "HALF_OPEN"
  THEN [tracked EXCEPT !.circuitBreaker.state = "CLOSED",
                       !.circuitBreaker.failures = 0,
                       !.circuitBreaker.halfOpenAttempts = 0]
  ELSE IF cb.state = "CLOSED"
  THEN [tracked EXCEPT !.circuitBreaker.failures = 0]
  ELSE tracked

\* Mutant of RecordSuccess: a success closes the breaker whatever its state.
RecordSuccessClosesOpen(tracked) ==
  LET cb == tracked.circuitBreaker IN
  IF cb.state # "CLOSED"
  THEN [tracked EXCEPT !.circuitBreaker.state = "CLOSED",
                       !.circuitBreaker.failures = 0,
                       !.circuitBreaker.halfOpenAttempts = 0]
  ELSE [tracked EXCEPT !.circuitBreaker.failures = Max(0, cb.failures - 1)]

RecordSuccess(tracked) ==
  LET cb == tracked.circuitBreaker IN
  IF cb.state = "HALF_OPEN"
  THEN [tracked EXCEPT !.circuitBreaker.state = "CLOSED",
                       !.circuitBreaker.failures = 0,
                       !.circuitBreaker.halfOpenAttempts = 0]
  ELSE IF cb.state = "CLOSED"
  THEN [tracked EXCEPT !.circuitBreaker.failures = Max(0, cb.failures - 1)]
  ELSE tracked

\* Mutant of RecordFailure: the HALF_OPEN failure keeps the old timestamp.
RecordFailureStale(tracked, t) ==
  LET cb == tracked.circuitBreaker IN
  IF cb.state = "HALF_OPEN"
  THEN [tracked EXCEPT !.circuitBreaker.state = "OPEN",
                       !.circuitBreaker.halfOpenAttempts = 0]
  ELSE IF cb.state = "CLOSED"
  THEN [tracked EXCEPT !.circuitBreaker.lastFailureTime = t,
                       !.circuitBreaker.failures = cb.failures + 1,
                       !.circuitBreaker.state =
                          IF cb.failures + 1 >= failureThreshold THEN "OPEN" ELSE "CLOSED"]
  ELSE [tracked EXCEPT !.circuitBreaker.lastFailureTime = t]

\* Mutant of RecordFailure: the threshold is compared with > .
RecordFailureLate(tracked, t) ==
  LET t1 == [tracked EXCEPT !.circuitBreaker.lastFailureTime = t]
      cb == t1.circuitBreaker
  IN
  IF cb.state = "HALF_OPEN"
  THEN [t1 EXCEPT !.circuitBreaker.state = "OPEN",
                  !.circuitBreaker.halfOpenAttempts = 0]
  ELSE IF cb.state = "CLOSED"
  THEN [t1 EXCEPT !.circuitBreaker.failures = cb.failures + 1,
                  !.circuitBreaker.state =
                     IF cb.failures + 1 > failureThreshold THEN "OPEN" ELSE "CLOSED"]
  ELSE t1

RecordFailure(tracked, t) ==
  LET t1 == [tracked EXCEPT !.circuitBreaker.lastFailureTime = t]
      cb == t1.circuitBreaker
  IN
  IF cb.state = "HALF_OPEN"
  THEN [t1 EXCEPT !.circuitBreaker.state = "OPEN",
                  !.circuitBreaker.halfOpenAttempts = 0,
                  !.circuitBreaker.openedAt = t]
  ELSE IF cb.state = "CLOSED"
  THEN [t1 EXCEPT !.circuitBreaker.failures = cb.failures + 1,
                  !.circuitBreaker.state =
                     IF cb.failures + 1 >= failureThreshold THEN "OPEN" ELSE "CLOSED",
                  !.circuitBreaker.openedAt =
                     IF cb.failures + 1 >= failureThreshold THEN t ELSE @]
  ELSE t1

\* ---------------------------------------------- 6. exponential backoff

\* Mutant of CalculateBackoffDelay: the delay is not capped at maxDelayMs.
CalculateBackoffDelayUncapped(attempt) ==
  initialDelayMs * Pow(multiplier, attempt - 1)

CalculateBackoffDelay(attempt) ==
  Min(initialDelayMs * Pow(multiplier, attempt - 1), maxDelayMs)

\* ------------------------------------------------- 7. load balancer

\* priorityBonus, in hundredths.
PriorityBonus(p) ==
  CASE p = "cerebras" -> 15 [] p = "groq" -> 10 [] p = "openrouter" -> 5
    [] OTHER -> 0

\* calculateHealthScore(tracked) at Date.now() = t is the exact fraction
\*   ScoreNum / (ScoreUnit * ScoreK).
ScoreUnit == 100 * 1000

ScoreK(tracked) ==
  IF tracked.circuitBreaker.state \in {"OPEN", "HALF_OPEN"} THEN 1
  ELSE IF tracked.metrics.totalRequests < minRequestsForScoring THEN 1
  ELSE tracked.metrics.totalRequests

\* Mutant of ScoreNum: the final clamp to [0, 1] is missing.
ScoreNumUnclamped(tracked, p, t) ==
  LET m == tracked.metrics
      cb == tracked.circuitBreaker
      bonus == PriorityBonus(p)
  IN
  IF cb.state = "OPEN" THEN 0
  ELSE IF cb.state = "HALF_OPEN" THEN ScoreUnit \div 10
  ELSE IF m.totalRequests < minRequestsForScoring
  THEN (ScoreUnit \div 2) + (ScoreUnit \div 100) * bonus
  ELSE
    LET n == m.totalRequests
        success == (ScoreUnit \div 2) * m.successCount
        latency == Max(0, 30000 * n - 6 * m.totalLatencyMs)
        timeSinceError == t - m.lastErrorTime
        penalty ==
          IF Truthy(m.lastErrorTime) /\ timeSinceError < errorPenaltyDurationMs
          THEN (((3 * ScoreUnit) \div 10) \div errorPenaltyDurationMs)
               * n * (errorPenaltyDurationMs - timeSinceError)
          ELSE 0
    IN success + latency + (ScoreUnit \div 100) * bonus * n - penalty

\* Mutant of ScoreNum: the penalty runs twice as long as
\* CONFIG.errorPenaltyDurationMs.
ScoreNumLongPenalty(tracked, p, t) ==
  LET m == tracked.metrics
      cb == tracked.circuitBreaker
      bonus == PriorityBonus(p)
  IN
  IF cb.state = "OPEN" THEN 0
  ELSE IF cb.state = "HALF_OPEN" THEN ScoreUnit \div 10
  ELSE IF m.totalRequests < minRequestsForScoring
  THEN (ScoreUnit \div 2) + (ScoreUnit \div 100) * bonus
  ELSE
    LET n == m.totalRequests
        success == (ScoreUnit \div 2) * m.successCount
        latency == Max(0, 30000 * n - 6 * m.totalLatencyMs)
        timeSinceError == t - m.lastErrorTime
        penalty ==
          IF Truthy(m.lastErrorTime) /\ timeSinceError < 2 * errorPenaltyDurationMs
          THEN (n * (2 * errorPenaltyDurationMs - timeSinceError)) \div 2
          ELSE 0
        raw == success + latency + (ScoreUnit \div 100) * bonus * n - penalty
    IN Max(0, Min(ScoreUnit * n, raw))

ScoreNum(tracked, p, t) ==
  LET m == tracked.metrics
      cb == tracked.circuitBreaker
      bonus == PriorityBonus(p)
  IN
  IF cb.state = "OPEN" THEN 0
  ELSE IF cb.state = "HALF_OPEN" THEN ScoreUnit \div 10
  ELSE IF m.totalRequests < minRequestsForScoring
  THEN (ScoreUnit \div 2) + (ScoreUnit \div 100) * bonus
  ELSE
    LET n == m.totalRequests
        \* successRate * 0.5
        success == (ScoreUnit \div 2) * m.successCount
        \* latencyScore * 0.3, latencyScore = max(0, 1 - avgLatency / 5000)
        latency == Max(0, 30000 * n - 6 * m.totalLatencyMs)
        timeSinceError == t - m.lastErrorTime
        \* 0.3 * (1 - timeSinceError / errorPenaltyDurationMs)
        penalty ==
          IF Truthy(m.lastErrorTime) /\ timeSinceError < errorPenaltyDurationMs
          THEN (((3 * ScoreUnit) \div 10) \div errorPenaltyDurationMs)
               * n * (errorPenaltyDurationMs - timeSinceError)
          ELSE 0
        raw == success + latency + (ScoreUnit \div 100) * bonus * n - penalty
    IN Max(0, Min(ScoreUnit * n, raw))

\* calculateHealthScore(tracked) at Date.now() = t, as the exact fraction
\* num / den.
HealthScore(tracked, p, t) ==
  [num |-> ScoreNum(tracked, p, t), den |-> ScoreUnit * ScoreK(tracked)]

\* score(a) > score(b) for two tracked services
ScoreGreater(ta, pa, tb, pb, t) ==
  ScoreNum(ta, pa, t) * ScoreK(tb) > ScoreNum(tb, pb, t) * ScoreK(ta)

RECURSIVE SetToSeqAsc(_)
SetToSeqAsc(S) ==
  IF S = {} THEN <<>>
  ELSE LET m == CHOOSE x \in S : \A y \in S : x <= y
       IN <<m>> \o SetToSeqAsc(S \ {m})

\* Mutant of ScoredOrder: equal scores come out in descending index order.
RECURSIVE ScoredOrderTieLast(_, _, _)
ScoredOrderTieLast(S, ts, t) ==
  IF S = {} THEN <<>>
  ELSE LET first == CHOOSE i \in S : \A j \in S \ {i} :
                       \/ ScoreGreater(ts[i], Provider(i), ts[j], Provider(j), t)
                       \/ /\ ~ScoreGreater(ts[j], Provider(j), ts[i], Provider(i), t)
                          /\ i > j
       IN <<first>> \o ScoredOrderTieLast(S \ {first}, ts, t)

\* Mutant of ScoredOrder: the comparator is a.score - b.score, ascending.
RECURSIVE ScoredOrderAscending(_, _, _)
ScoredOrderAscending(S, ts, t) ==
  IF S = {} THEN <<>>
  ELSE LET first == CHOOSE i \in S : \A j \in S \ {i} :
                       \/ ScoreGreater(ts[j], Provider(j), ts[i], Provider(i), t)
                       \/ /\ ~ScoreGreater(ts[i], Provider(i), ts[j], Provider(j), t)
                          /\ i < j
       IN <<first>> \o ScoredOrderAscending(S \ {first}, ts, t)

\* scored.sort((a, b) => b.score - a.score): descending score, and the sort
\* is stable, so equal scores keep their index order.
RECURSIVE ScoredOrder(_, _, _)
ScoredOrder(S, ts, t) ==
  IF S = {} THEN <<>>
  ELSE LET first == CHOOSE i \in S : \A j \in S \ {i} :
                       \/ ScoreGreater(ts[i], Provider(i), ts[j], Provider(j), t)
                       \/ /\ ~ScoreGreater(ts[j], Provider(j), ts[i], Provider(i), t)
                          /\ i < j
       IN <<first>> \o ScoredOrder(S \ {first}, ts, t)

RECURSIVE ProdK(_, _)
ProdK(S, ts) ==
  IF S = {} THEN 1
  ELSE LET i == CHOOSE x \in S : TRUE IN ScoreK(ts[i]) * ProdK(S \ {i}, ts)

\* Mutant of Weight: the floor Math.max(0.1, ...) is missing.
WeightNoFloor(i, S, ts, t) ==
  ScoreNum(ts[i], Provider(i), t) * (ProdK(S, ts) \div ScoreK(ts[i]))

\* Math.max(0.1, s.score), over the common denominator ScoreUnit * ProdK.
Weight(i, S, ts, t) ==
  Max((ScoreUnit \div 10) * ScoreK(ts[i]), ScoreNum(ts[i], Provider(i), t))
    * (ProdK(S, ts) \div ScoreK(ts[i]))

RECURSIVE SumWeights(_, _, _, _, _)
SumWeights(order, k, S, ts, t) ==
  IF k = 0 THEN 0
  ELSE SumWeights(order, k - 1, S, ts, t) + Weight(order[k], S, ts, t)

\* The weighted draw with Math.random() = u / steps: random = (u / steps) *
\* totalScore; walk the sorted candidates subtracting each weight and return
\* the first with random <= 0.
WeightedPick(order, S, ts, u, steps, t) ==
  LET total == SumWeights(order, Len(order), S, ts, t)
      hits == {k \in 1 .. Len(order) :
                 u * total <= steps * SumWeights(order, k, S, ts, t)}
  IN IF hits = {} THEN order[1]
     ELSE order[CHOOSE k \in hits : \A k2 \in hits : k <= k2]

\* getNextService after the filter: available are the candidate indices and
\* ts2 the pool as the availability checks left it.
SelectAmong(available, ts2, rr, routingMode, u, steps, t) ==
  IF Cardinality(available) = 0 THEN [choice |-> None, ts |-> ts2, rr |-> rr]
  ELSE IF Cardinality(available) = 1
  THEN [choice |-> SetToSeqAsc(available)[1], ts |-> ts2, rr |-> rr]
  ELSE IF routingMode = "round-robin"
  THEN [choice |-> SetToSeqAsc(available)[(rr % Cardinality(available)) + 1],
        ts |-> ts2, rr |-> (rr + 1) % Cardinality(DOMAIN ts2)]
  ELSE IF routingMode = "fastest"
  THEN [choice |-> ScoredOrder(available, ts2, t)[1], ts |-> ts2, rr |-> rr]
  ELSE [choice |-> WeightedPick(ScoredOrder(available, ts2, t), available, ts2,
                                u, steps, t),
        ts |-> ts2, rr |-> rr]

\* Mutant of GetNextService: the filter forgets ts.enabled.
GetNextServiceIgnoreEnabled(ts, rr, excludeIndices, routingMode, u, t) ==
  LET consulted == {i \in DOMAIN ts : i \notin excludeIndices}
      chk == [i \in DOMAIN ts |-> IsServiceAvailable(ts[i], t)]
  IN SelectAmong({i \in consulted : chk[i].ok},
                 [i \in DOMAIN ts |-> IF i \in consulted THEN chk[i].tracked ELSE ts[i]],
                 rr, routingMode, u, RandomSteps, t)

\* getNextService(excludeIndices, routingMode) with round-robin pointer rr and
\* Math.random() = u / steps: the chosen index (None for null), the pool
\* after the availability checks, and the pointer.  The filter calls
\* isServiceAvailable only for indices that are not excluded and are enabled.
GetNextServiceDrawn(ts, rr, excludeIndices, routingMode, u, steps, t) ==
  LET consulted == {i \in DOMAIN ts : i \notin excludeIndices /\ ts[i].enabled}
      chk == [i \in DOMAIN ts |-> IsServiceAvailable(ts[i], t)]
  IN SelectAmong({i \in consulted : chk[i].ok},
                 [i \in DOMAIN ts |-> IF i \in consulted THEN chk[i].tracked ELSE ts[i]],
                 rr, routingMode, u, steps, t)

\* getNextService with Math.random() = u / RandomSteps.
GetNextService(ts, rr, excludeIndices, routingMode, u, t) ==
  GetNextServiceDrawn(ts, rr, excludeIndices, routingMode, u, RandomSteps, t)

\* ------------------------------------------------------------- state

VARIABLES
  trackedServices,    \* index -> [metrics, circuitBreaker, enabled]
  roundRobinPointer,
  inFlightRequests,
  isShuttingDown,
  shutdownTask,       \* the locals of shutdown(signal) and whether the process lives
  now,                \* Date.now()
  toggles,            \* toggle requests served so far
  lastModels,         \* the response of GET /v1/models on its way to the client
  healthLog,          \* what the GET /health requests so far computed, in order
  lastToggle,         \* the response to the last POST /v1/providers/toggle
  req                 \* request -> the locals of its fetch handler

vars == <<trackedServices, roundRobinPointer, inFlightRequests, isShuttingDown,
          shutdownTask,
          now, toggles, lastModels, healthLog, lastToggle, req>>

\* SSE frames, as <<kind, upstream, k>>: chunk k of that upstream's sequence.
ChunkFrame(s, k) == <<"chunk", s, k>>
MetadataFrame(s) == <<"metadata", s, 0>>
ErrorFrame       == <<"error", None, 0>>
DoneFrame        == <<"done", None, 0>>

RoutingModes == {"smart", "fastest", "round-robin"}

\* No /v1/models response is on its way.
NoResponse == [sent |-> FALSE, available |-> [i \in Services |-> FALSE]]

\* shutdown(signal) has not been called and the process lives.
\* A name that no upstream carries.
UnknownName == NumServices

\* No toggle request has been answered; also the shape of its 400 and 404.
NoToggle == [status |-> 0, name |-> Undefined, enabled |-> FALSE]

\* The bodies of the toggle requests.
ToggleBodies ==
  {[name |-> n, kind |-> k, enabled |-> e] :
     n \in Services \cup {UnknownName, Undefined},
     k \in {"boolean", "other"}, e \in BOOLEAN}

NotStarted == [pc |-> "idle", startTime |-> 0, sleepUntil |-> 0]

\* The body of a JSON response: the type of its error object, or the upstream
\* whose completion it carries.
NoBody == [error |-> "", completion |-> None]

\* The handler's locals before the request arrives; gen records the values
\* of the current attempt's sequence that the loop has handled, "chunk" for a
\* non-empty one and "empty" for the empty string.  selectorCalls, sleeps,
\* attempts, successOn and failureOn record what the handler did (calls of
\* getNextService, sleeps, dispatches, successes and failures it recorded);
\* selections records what the calls of RoundRobinCall returned.
NewRequest ==
  [pc |-> "idle", streamRequested |-> TRUE, routingMode |-> "smart",
   triedIndices |-> {}, attemptNumber |-> 0, started |-> FALSE,
   aborted |-> FALSE, tracked |-> None, startTime |-> 0, sleepUntil |-> 0,
   genCount |-> 0, gen |-> <<>>, hasDecrementedInFlight |-> FALSE,
   controllerClosed |-> FALSE, cancelled |-> FALSE, status |-> 0,
   retryAfter |-> 0, body |-> NoBody,
   out |-> <<>>, selectorCalls |-> 0, sleeps |-> 0, attempts |-> <<>>,
   successOn |-> <<>>, failureOn |-> <<>>, selections |-> <<>>]

\* The part of the state one handler step reads and writes.
World(r) ==
  [ts |-> trackedServices, rr |-> roundRobinPointer,
   inFlight |-> inFlightRequests, rq |-> req[r]]

\* ------------------------------------------- 10. the streaming handler

\* safeEnqueue: controller.enqueue throws once the consumer cancelled.
SafeEnqueue(w, frame) ==
  IF w.rq.controllerClosed THEN w
  ELSE IF w.rq.cancelled THEN [w EXCEPT !.rq.controllerClosed = TRUE]
  ELSE [w EXCEPT !.rq.out = Append(@, frame)]

SafeClose(w) ==
  IF w.rq.controllerClosed THEN w ELSE [w EXCEPT !.rq.controllerClosed = TRUE]

\* Mutant of DecrementInFlight: the hasDecrementedInFlight test is missing.
DecrementInFlightUnguarded(w) ==
  [w EXCEPT !.rq.hasDecrementedInFlight = TRUE, !.inFlight = @ - 1]

DecrementInFlight(w) ==
  IF ~w.rq.hasDecrementedInFlight
  THEN [w EXCEPT !.rq.hasDecrementedInFlight = TRUE, !.inFlight = @ - 1]
  ELSE w

\* Mutant of OuterCatch: [DONE] is enqueued on the controller directly.
OuterCatchRawEnqueue(w) ==
  LET w1 == [w EXCEPT !.rq.out = Append(@, DoneFrame)]
      w2 == DecrementInFlight(SafeClose(w1))
  IN [w2 EXCEPT !.rq.pc = "done"]

\* The catch and finally blocks of start(): [DONE], close, decrement.
OuterCatch(w) ==
  LET w1 == SafeClose(SafeEnqueue(w, DoneFrame))
      w2 == DecrementInFlight(w1)
  IN [w2 EXCEPT !.rq.pc = "done"]

\* Mutant of Finish: the error frame is emitted whenever nothing started,
\* also after the client went away.
FinishErrorOnAbort(w) ==
  LET w1 == IF ~w.rq.started THEN SafeEnqueue(w, ErrorFrame) ELSE w
      w2 == SafeClose(SafeEnqueue(w1, DoneFrame))
      w3 == DecrementInFlight(w2)
  IN [w3 EXCEPT !.rq.pc = "done"]

\* After the while loop: the error frame, [DONE], close, and the finally block.
Finish(w) ==
  LET w1 == IF ~w.rq.started /\ ~w.rq.aborted THEN SafeEnqueue(w, ErrorFrame) ELSE w
      w2 == SafeClose(SafeEnqueue(w1, DoneFrame))
      w3 == DecrementInFlight(w2)
  IN [w3 EXCEPT !.rq.pc = "done"]

\* What a successful attempt started at startTime writes at Date.now() = t:
\* successCount++, the latency, recordSuccess.
TrackedSuccess(tracked, startTime, t) ==
  RecordSuccess([tracked EXCEPT !.metrics.successCount = @ + 1,
                                !.metrics.totalLatencyMs = @ + (t - startTime)])

\* What the catch block of an attempt writes: failCount++, lastError,
\* lastErrorTime, the latency, recordFailure.
TrackedFailure(tracked, startTime, t) ==
  RecordFailure([tracked EXCEPT !.metrics.failCount = @ + 1,
                                !.metrics.lastError = "error",
                                !.metrics.lastErrorTime = t,
                                !.metrics.totalLatencyMs = @ + (t - startTime)],
                t)

\* Mutant of TrackedDispatch: the loop forgets totalRequests++.
TrackedDispatchNoCount(tracked) ==
  IF tracked.circuitBreaker.state = "HALF_OPEN"
  THEN [tracked EXCEPT !.circuitBreaker.halfOpenAttempts = @ + 1]
  ELSE tracked

\* What the streaming loop writes right before the adapter call: the
\* half-open attempt counter and totalRequests.
TrackedDispatch(tracked) ==
  LET t1 == IF tracked.circuitBreaker.state = "HALF_OPEN"
            THEN [tracked EXCEPT !.circuitBreaker.halfOpenAttempts = @ + 1]
            ELSE tracked
  IN [t1 EXCEPT !.metrics.totalRequests = @ + 1]

SuccessUpdate(w, t) ==
  LET i == w.rq.tracked
  IN [w EXCEPT !.ts[i] = TrackedSuccess(@, w.rq.startTime, t),
               !.rq.successOn = Append(@, i)]

\* Mutant of FailureUpdate: the catch block forgets recordFailure.
FailureUpdateNoBreaker(w, t) ==
  LET i == w.rq.tracked
  IN [w EXCEPT !.ts[i].metrics.failCount = @ + 1,
               !.ts[i].metrics.lastError = "error",
               !.ts[i].metrics.lastErrorTime = t,
               !.ts[i].metrics.totalLatencyMs = @ + (t - w.rq.startTime),
               !.rq.failureOn = Append(@, i)]

FailureUpdate(w, t) ==
  LET i == w.rq.tracked
  IN [w EXCEPT !.ts[i] = TrackedFailure(@, w.rq.startTime, t),
               !.rq.failureOn = Append(@, i)]

\* From "const service = tracked.service" to the await of the first result.
\* The first-token timer is armed inside a try whose finally clears it, and
\* the try returns Promise.race(...) without awaiting it: the finally runs
\* before the race settles, so the timer is cleared in this same step and
\* the race is gen.next() alone.
Dispatch(w, t) ==
  LET i == w.rq.tracked
  IN [w EXCEPT !.ts[i] = TrackedDispatch(@), !.rq.startTime = t, !.rq.genCount = 0,
               !.rq.gen = <<>>,
               !.rq.attempts = Append(@, i), !.rq.pc = "awaitFirst"]

\* Mutant of Selected: the loop forgets triedIndices.add(serviceIndex).
SelectedNoAdd(w, sel, t) ==
  LET w1 == [w EXCEPT !.ts = sel.ts, !.rr = sel.rr, !.rq.selectorCalls = @ + 1]
  IN
  IF sel.choice = None
  THEN IF w1.rq.attemptNumber > 0
       THEN [w1 EXCEPT !.rq.pc = "reprobeSleep",
                       !.rq.sleepUntil = t + CalculateBackoffDelay(w1.rq.attemptNumber),
                       !.rq.sleeps = @ + 1]
       ELSE Finish(w1)
  ELSE
    LET w2 == [w1 EXCEPT !.rq.attemptNumber = @ + 1,
                         !.rq.tracked = sel.choice]
    IN IF w2.rq.attemptNumber > 1
       THEN [w2 EXCEPT !.rq.pc = "backoff",
                       !.rq.sleepUntil = t + CalculateBackoffDelay(w2.rq.attemptNumber - 1),
                       !.rq.sleeps = @ + 1]
       ELSE Dispatch(w2, t)

\* The loop body once getNextService has answered sel, up to its first await
\* (a sleep or the first result) or to the end of the handler.
Selected(w, sel, t) ==
  LET w1 == [w EXCEPT !.ts = sel.ts, !.rr = sel.rr, !.rq.selectorCalls = @ + 1]
  IN
  IF sel.choice = None
  THEN IF w1.rq.attemptNumber > 0
       THEN [w1 EXCEPT !.rq.pc = "reprobeSleep",
                       !.rq.sleepUntil = t + CalculateBackoffDelay(w1.rq.attemptNumber),
                       !.rq.sleeps = @ + 1]
       ELSE Finish(w1)
  ELSE
    LET w2 == [w1 EXCEPT !.rq.attemptNumber = @ + 1,
                         !.rq.triedIndices = @ \cup {sel.choice},
                         !.rq.tracked = sel.choice]
    IN IF w2.rq.attemptNumber > 1
       THEN [w2 EXCEPT !.rq.pc = "backoff",
                       !.rq.sleepUntil = t + CalculateBackoffDelay(w2.rq.attemptNumber - 1),
                       !.rq.sleeps = @ + 1]
       ELSE Dispatch(w2, t)

\* One evaluation of the while condition, then the selector call and the
\* loop body.
LoopTop(w, u, t) ==
  IF ~(Cardinality(w.rq.triedIndices) < NumServices /\ ~w.rq.aborted)
  THEN Finish(w)
  ELSE Selected(w, GetNextService(w.ts, w.rr, w.rq.triedIndices,
                                  w.rq.routingMode, u, t), t)

\* trackedServices.some((ts, idx) => !triedIndices.has(idx) && isServiceAvailable(ts)):
\* some() stops at the first index that answers true.
RECURSIVE Reprobe(_, _, _, _)
Reprobe(ts, tried, idx, t) ==
  IF idx >= NumServices THEN [reopened |-> FALSE, ts |-> ts]
  ELSE IF idx \in tried THEN Reprobe(ts, tried, idx + 1, t)
  ELSE LET c == IsServiceAvailable(ts[idx], t)
           ts1 == [ts EXCEPT ![idx] = c.tracked]
       IN IF c.ok THEN [reopened |-> TRUE, ts |-> ts1]
          ELSE Reprobe(ts1, tried, idx + 1, t)

\* After the sleep of the selector-none branch.
AfterReprobeSleep(w, u, t) ==
  LET p == Reprobe(w.ts, w.rq.triedIndices, 0, t)
      w1 == [w EXCEPT !.ts = p.ts]
  IN IF ~p.reopened THEN Finish(w1) ELSE LoopTop(w1, u, t)

\* Mutant of CatchBlock: "if (started) break" is missing.
CatchBlockNoBreak(w, u, t) == LoopTop(FailureUpdate(w, t), u, t)

\* The catch block of one attempt.
CatchBlock(w, u, t) ==
  LET w1 == FailureUpdate(w, t)
  IN IF w1.rq.started THEN Finish(w1) ELSE LoopTop(w1, u, t)

\* Mutant of AfterForAwait: the success is recorded but the break is missing.
AfterForAwaitNoBreak(w, u, t) ==
  IF w.rq.started THEN LoopTop(SuccessUpdate(w, t), u, t) ELSE LoopTop(w, u, t)

\* After "for await (const chunk of gen)" ended or was left by break.
AfterForAwait(w, u, t) ==
  IF w.rq.started THEN Finish(SuccessUpdate(w, t)) ELSE LoopTop(w, u, t)

\* Mutant of EmitFirst: the chunk is emitted before the metadata.
EmitFirstChunkFirst(w, k) ==
  SafeEnqueue(SafeEnqueue([w EXCEPT !.rq.started = TRUE],
                          ChunkFrame(w.rq.tracked, k)),
              MetadataFrame(w.rq.tracked))

\* emitMetadata then emitChunk for chunk k of the current upstream.
EmitFirst(w, k) ==
  SafeEnqueue(SafeEnqueue([w EXCEPT !.rq.started = TRUE],
                          MetadataFrame(w.rq.tracked)),
              ChunkFrame(w.rq.tracked, k))

\* The first result of gen.next(): outcome is "chunk" (a non-empty value),
\* "empty" (the value is the empty string, which is falsy), "done" or "throw".
OnFirstResult(w, outcome, u, t) ==
  IF outcome = "throw" THEN CatchBlock(w, u, t)
  ELSE IF w.rq.aborted THEN Finish(w)
  ELSE IF outcome = "chunk"
  THEN [EmitFirst(w, 1) EXCEPT !.rq.genCount = 1, !.rq.gen = <<"chunk">>,
                               !.rq.pc = "streaming"]
  ELSE IF outcome = "empty"
  THEN [w EXCEPT !.rq.genCount = 1, !.rq.gen = <<"empty">>, !.rq.pc = "streaming"]
  ELSE \* firstResult.done
    LET w1 == SuccessUpdate([w EXCEPT !.rq.started = TRUE], t)
    IN Finish(SafeEnqueue(w1, MetadataFrame(w1.rq.tracked)))

\* One more result of the for-await loop.
OnNextResult(w, outcome, u, t) ==
  IF outcome = "throw" THEN CatchBlock(w, u, t)
  ELSE IF outcome = "done" THEN AfterForAwait(w, u, t)
  ELSE IF w.rq.aborted THEN AfterForAwait(w, u, t)
  ELSE IF outcome = "empty"
  THEN [w EXCEPT !.rq.genCount = @ + 1, !.rq.gen = Append(@, "empty")]
  ELSE LET k == w.rq.genCount + 1
           w1 == IF ~w.rq.started THEN EmitFirst(w, k)
                 ELSE SafeEnqueue(w, ChunkFrame(w.rq.tracked, k))
       IN [w1 EXCEPT !.rq.genCount = k, !.rq.gen = Append(@, "chunk")]

\* --------------------------------------- 10. the non-streaming handler

NsDispatch(w, t) ==
  LET i == w.rq.tracked
  IN [w EXCEPT !.ts[i].metrics.totalRequests = @ + 1, !.rq.startTime = t,
               !.rq.attempts = Append(@, i), !.rq.pc = "nsAwait"]

\* The non-streaming loop body once getNextService has answered sel.
NsSelected(w, sel, t) ==
  LET w1 == [w EXCEPT !.ts = sel.ts, !.rr = sel.rr, !.rq.selectorCalls = @ + 1]
  IN
  IF sel.choice = None
  THEN [w1 EXCEPT !.rq.pc = "done", !.rq.status = 502,
                  !.rq.body.error = "gateway_error"]
  ELSE
    LET w2 == [w1 EXCEPT !.rq.attemptNumber = @ + 1,
                         !.rq.triedIndices = @ \cup {sel.choice},
                         !.rq.tracked = sel.choice]
    IN IF w2.rq.attemptNumber > 1
       THEN [w2 EXCEPT !.rq.pc = "nsBackoff",
                       !.rq.sleepUntil = t + CalculateBackoffDelay(w2.rq.attemptNumber - 1),
                       !.rq.sleeps = @ + 1]
       ELSE NsDispatch(w2, t)

NsLoopTop(w, u, t) ==
  IF ~(Cardinality(w.rq.triedIndices) < NumServices)
  THEN [w EXCEPT !.rq.pc = "done", !.rq.status = 502,
                 !.rq.body.error = "gateway_error"]
  ELSE NsSelected(w, GetNextService(w.ts, w.rr, w.rq.triedIndices,
                                    w.rq.routingMode, u, t), t)

\* Mutant of OnNsResult: a success does not return, the loop goes on.
OnNsResultNoReturn(w, outcome, u, t) ==
  IF outcome = "throw" THEN NsLoopTop(FailureUpdate(w, t), u, t)
  ELSE NsLoopTop([SuccessUpdate(w, t) EXCEPT
                    !.rq.status = 200, !.rq.body.completion = w.rq.tracked], u, t)

OnNsResult(w, outcome, u, t) ==
  IF outcome = "throw" THEN NsLoopTop(FailureUpdate(w, t), u, t)
  ELSE [SuccessUpdate(w, t) EXCEPT !.rq.pc = "done", !.rq.status = 200,
                                   !.rq.body.completion = w.rq.tracked]

\* ----------------------------------------------------------- actions

Commit(r, w) ==
  /\ trackedServices' = w.ts
  /\ roundRobinPointer' = w.rr
  /\ inFlightRequests' = w.inFlight
  /\ req' = [req EXCEPT ![r] = w.rq]
  /\ UNCHANGED <<isShuttingDown, shutdownTask, now, toggles, lastModels, healthLog, lastToggle>>

\* Mutant of Arrive: fetch() forgets the isShuttingDown test.
ArriveAlways(r) ==
  /\ req[r].pc = "idle"
  /\ req' = [req EXCEPT ![r].pc = "parsing"]
  /\ inFlightRequests' = inFlightRequests + 1
  /\ UNCHANGED <<trackedServices, roundRobinPointer, isShuttingDown, shutdownTask,
                 now, toggles, lastModels, healthLog, lastToggle>>

\* fetch() for POST /v1/chat/completions, up to "await req.json()".
Arrive(r) ==
  /\ req[r].pc = "idle"
  /\ IF isShuttingDown
     THEN /\ req' = [req EXCEPT ![r].pc = "done", ![r].status = 503,
                                 ![r].retryAfter = 30,
                                 ![r].body.error = "service_unavailable"]
          /\ UNCHANGED inFlightRequests
     ELSE /\ req' = [req EXCEPT ![r].pc = "parsing"]
          /\ inFlightRequests' = inFlightRequests + 1
  /\ UNCHANGED <<trackedServices, roundRobinPointer, isShuttingDown, shutdownTask, now, toggles,
                 lastModels, healthLog, lastToggle>>

\* The body arrived and is not a valid message list: 400.
InvalidBody(r) ==
  /\ req[r].pc = "parsing"
  /\ req' = [req EXCEPT ![r].pc = "done", ![r].status = 400,
                        ![r].body.error = "invalid_request_error",
                        ![r].hasDecrementedInFlight = TRUE]
  /\ inFlightRequests' = inFlightRequests - 1
  /\ UNCHANGED <<trackedServices, roundRobinPointer, isShuttingDown, shutdownTask, now, toggles,
                 lastModels, healthLog, lastToggle>>

\* Mutant of BodyThrows: the catch block lowers the count twice.
BodyThrowsUnguarded(r) ==
  /\ req[r].pc = "parsing"
  /\ req' = [req EXCEPT ![r].pc = "done", ![r].status = 500,
                        ![r].body.error = "internal_error"]
  /\ inFlightRequests' = inFlightRequests - 2
  /\ UNCHANGED <<trackedServices, roundRobinPointer, isShuttingDown, shutdownTask, now, toggles,
                 lastModels, healthLog, lastToggle>>

\* req.json() rejects (the body is not JSON): the handler's catch block, 500.
BodyThrows(r) ==
  /\ req[r].pc = "parsing"
  /\ req' = [req EXCEPT ![r].pc = "done", ![r].status = 500,
                        ![r].body.error = "internal_error",
                        ![r].hasDecrementedInFlight = TRUE]
  /\ inFlightRequests' = inFlightRequests - 1
  /\ UNCHANGED <<trackedServices, roundRobinPointer, isShuttingDown, shutdownTask, now, toggles,
                 lastModels, healthLog, lastToggle>>

\* The body arrived and is valid: the handler runs to its first await.
BodyParsed(r) ==
  /\ req[r].pc = "parsing"
  /\ \E stream \in BOOLEAN, mode \in RoutingModes, u \in 0 .. (RandomSteps - 1) :
       LET w == [World(r) EXCEPT !.rq.streamRequested = stream,
                                 !.rq.routingMode = mode,
                                 !.rq.status = IF stream THEN 200 ELSE 0]
       IN Commit(r, IF stream THEN LoopTop(w, u, now) ELSE NsLoopTop(w, u, now))

ReprobeWake(r) ==
  /\ req[r].pc = "reprobeSleep"
  /\ now >= req[r].sleepUntil
  /\ \E u \in 0 .. (RandomSteps - 1) : Commit(r, AfterReprobeSleep(World(r), u, now))

BackoffWake(r) ==
  /\ req[r].pc = "backoff"
  /\ now >= req[r].sleepUntil
  /\ Commit(r, Dispatch(World(r), now))

FirstResult(r) ==
  /\ req[r].pc = "awaitFirst"
  /\ \E outcome \in {"chunk", "empty", "done", "throw"}, u \in 0 .. (RandomSteps - 1) :
       Commit(r, OnFirstResult(World(r), outcome, u, now))

NextResult(r) ==
  /\ req[r].pc = "streaming"
  /\ \E outcome \in {"chunk", "empty", "done", "throw"}, u \in 0 .. (RandomSteps - 1) :
       /\ outcome \in {"chunk", "empty"} => req[r].genCount < MaxChunks
       /\ Commit(r, OnNextResult(World(r), outcome, u, now))

NsBackoffWake(r) ==
  /\ req[r].pc = "nsBackoff"
  /\ now >= req[r].sleepUntil
  /\ Commit(r, NsDispatch(World(r), now))

NsResult(r) ==
  /\ req[r].pc = "nsAwait"
  /\ \E outcome \in {"done", "throw"}, u \in 0 .. (RandomSteps - 1) :
       Commit(r, OnNsResult(World(r), outcome, u, now))

StreamingPcs == {"reprobeSleep", "backoff", "awaitFirst", "streaming"}

\* The abort event of req.signal: onAbort.
ClientAbort(r) ==
  /\ req[r].pc \in StreamingPcs
  /\ ~req[r].aborted
  /\ req' = [req EXCEPT ![r].aborted = TRUE]
  /\ UNCHANGED <<trackedServices, roundRobinPointer, inFlightRequests,
                 isShuttingDown, shutdownTask, now, toggles, lastModels, healthLog, lastToggle>>

\* An exception escapes the loop body of request r as it resumes after a
\* sleep, outside the try block of an attempt: start()'s own catch block runs.
LoopThrows(r) ==
  /\ req[r].pc \in {"reprobeSleep", "backoff"}
  /\ now >= req[r].sleepUntil
  /\ Commit(r, OuterCatch(World(r)))

\* The consumer cancels the response stream: the cancel() callback.
Cancel(r) ==
  /\ req[r].pc \in StreamingPcs
  /\ ~req[r].cancelled
  /\ LET w == DecrementInFlight([World(r) EXCEPT !.rq.aborted = TRUE,
                                                 !.rq.cancelled = TRUE])
     IN Commit(r, w)

\* Mutant of ToggleRequest: enabling an upstream also gives it a new breaker.
ToggleRequestResets(body) ==
  /\ ~isShuttingDown
  /\ toggles < MaxToggles
  /\ toggles' = toggles + 1
  /\ IF body.name = Undefined \/ body.kind # "boolean"
     THEN /\ trackedServices' = trackedServices
          /\ lastToggle' = [NoToggle EXCEPT !.status = 400]
     ELSE IF body.name \notin DOMAIN trackedServices
     THEN /\ trackedServices' = trackedServices
          /\ lastToggle' = [NoToggle EXCEPT !.status = 404]
     ELSE /\ trackedServices' =
               [trackedServices EXCEPT
                  ![body.name].enabled = body.enabled,
                  ![body.name].circuitBreaker =
                    IF body.enabled THEN NewTracked.circuitBreaker ELSE @]
          /\ lastToggle' = [status |-> 200, name |-> body.name,
                            enabled |-> body.enabled]
  /\ UNCHANGED <<roundRobinPointer, inFlightRequests, isShuttingDown, shutdownTask, now,
                 lastModels, healthLog, req>>

\* POST /v1/providers/toggle with the parsed body: name is the upstream that
\* carries the name (display names are distinct), UnknownName or Undefined;
\* kind is typeof body.enabled, "boolean" or "other".
ToggleRequest(body) ==
  /\ ~isShuttingDown
  /\ toggles < MaxToggles
  /\ toggles' = toggles + 1
  /\ IF body.name = Undefined \/ body.kind # "boolean"
     THEN /\ trackedServices' = trackedServices
          /\ lastToggle' = [NoToggle EXCEPT !.status = 400]
     ELSE IF body.name \notin DOMAIN trackedServices
     THEN /\ trackedServices' = trackedServices
          /\ lastToggle' = [NoToggle EXCEPT !.status = 404]
     ELSE /\ trackedServices' =
               [trackedServices EXCEPT ![body.name].enabled = body.enabled]
          /\ lastToggle' = [status |-> 200, name |-> body.name,
                            enabled |-> body.enabled]
  /\ UNCHANGED <<roundRobinPointer, inFlightRequests, isShuttingDown, shutdownTask, now,
                 lastModels, healthLog, req>>

\* POST /v1/providers/toggle naming upstream i, with a boolean enabled.
Toggle(i, e) ==
  ToggleRequest([name |-> i, kind |-> "boolean", enabled |-> e])

Tick ==
  /\ now + TickMs <= MaxNow
  /\ now' = now + TickMs
  /\ UNCHANGED <<trackedServices, roundRobinPointer, inFlightRequests,
                 isShuttingDown, shutdownTask, toggles, lastModels, healthLog, lastToggle, req>>

Init ==
  /\ trackedServices \in [Services -> {NewTracked, TrippedTracked}]
  /\ roundRobinPointer = 0
  /\ inFlightRequests = 0
  /\ isShuttingDown = FALSE
  /\ shutdownTask = NotStarted
  /\ now = StartTime
  /\ toggles = 0
  /\ lastModels = NoResponse
  /\ healthLog = <<>>
  /\ lastToggle = NoToggle
  /\ req = [r \in Requests |-> NewRequest]

Next ==
  \/ \E r \in Requests :
       \/ Arrive(r) \/ InvalidBody(r) \/ BodyParsed(r)
       \/ ReprobeWake(r) \/ BackoffWake(r) \/ FirstResult(r) \/ NextResult(r)
       \/ NsBackoffWake(r) \/ NsResult(r)
       \/ ClientAbort(r) \/ Cancel(r)
  \/ \E i \in Services, e \in BOOLEAN : Toggle(i, e)
  \/ Tick

Spec == Init /\ [][Next]_vars

\* SpecProbe: the chat handler alone, with the scheduling of the event loop:
\* a due timer fires, a pending upstream call settles, and the clock
\* advances.  The client's abort and the consumer's cancel may or may not
\* come.
RequestStep(r) ==
  \/ Arrive(r) \/ InvalidBody(r) \/ BodyParsed(r)
  \/ ReprobeWake(r) \/ BackoffWake(r) \/ FirstResult(r) \/ NextResult(r)
  \/ NsBackoffWake(r) \/ NsResult(r)

NextProbe ==
  \/ \E r \in Requests : RequestStep(r)
  \/ \E r \in Requests : ClientAbort(r)
  \/ \E r \in Requests : Cancel(r)
  \/ Tick

SpecProbe ==
  /\ Init /\ [][NextProbe]_vars
  /\ WF_vars(\E r \in Requests : RequestStep(r))
  /\ WF_vars(Tick)

\* SpecStream: Spec with the exceptions that escape the loop body and the
\* bodies that are not JSON.
NextStream ==
  \/ \E r \in Requests :
       \/ Arrive(r) \/ InvalidBody(r) \/ BodyParsed(r)
       \/ ReprobeWake(r) \/ BackoffWake(r) \/ FirstResult(r) \/ NextResult(r)
       \/ NsBackoffWake(r) \/ NsResult(r)
       \/ ClientAbort(r) \/ Cancel(r)
       \/ LoopThrows(r) \/ BodyThrows(r)
  \/ \E i \in Services, e \in BOOLEAN : Toggle(i, e)
  \/ Tick

SpecStream == Init /\ [][NextStream]_vars

\* ------------------------------------------ the other endpoints

\* GET /v1/models: available = ts.enabled && isServiceAvailable(ts).
Models ==
  /\ ~isShuttingDown
  /\ ~lastModels.sent
  /\ LET chk == [i \in Services |-> IsServiceAvailable(trackedServices[i], now)]
     IN /\ trackedServices' =
             [i \in Services |-> IF trackedServices[i].enabled THEN chk[i].tracked
                                 ELSE trackedServices[i]]
        /\ lastModels' =
             [sent |-> TRUE,
              available |-> [i \in Services |-> trackedServices[i].enabled /\ chk[i].ok]]
  /\ UNCHANGED <<roundRobinPointer, inFlightRequests, isShuttingDown, shutdownTask, now,
                 toggles, healthLog, lastToggle, req>>

\* The client received the /v1/models response.
ModelsDelivered ==
  /\ lastModels.sent
  /\ lastModels' = NoResponse
  /\ UNCHANGED <<trackedServices, roundRobinPointer, inFlightRequests,
                 isShuttingDown, shutdownTask, now, toggles, healthLog, lastToggle, req>>

\* GET /health: calculateHealthScore(ts) for every tracked upstream.  The log
\* keeps the time of the request, the pool it read and the scores it got.
Health ==
  /\ ~isShuttingDown
  /\ Len(healthLog) < MaxHealth
  /\ healthLog' =
       Append(healthLog,
              [at |-> now, pool |-> trackedServices,
               score |-> [i \in DOMAIN trackedServices |->
                            HealthScore(trackedServices[i], Provider(i), now)]])
  /\ UNCHANGED <<trackedServices, roundRobinPointer, inFlightRequests,
                 isShuttingDown, shutdownTask, now, toggles, lastModels,
                 lastToggle, req>>

\* ------------------------------------------------- 9. graceful shutdown

\* Mutant of ShutdownLoop: the wait loop forgets the timeout.
ShutdownLoopNoTimeout(task, inFlight, t) ==
  IF inFlight > 0
  THEN [task EXCEPT !.pc = "sleeping", !.sleepUntil = t + shutdownPollMs]
  ELSE [task EXCEPT !.pc = "exited"]

\* One evaluation of the wait loop of shutdown() at Date.now() = t: another
\* sleep of 100 ms, or process.exit(0).
ShutdownLoop(task, inFlight, t) ==
  IF inFlight > 0 /\ (t - task.startTime) < shutdownTimeoutMs
  THEN [task EXCEPT !.pc = "sleeping", !.sleepUntil = t + shutdownPollMs]
  ELSE [task EXCEPT !.pc = "exited"]

\* Mutant of Signal: shutdown() forgets "if (isShuttingDown) return".
SignalRestarts ==
  /\ isShuttingDown' = TRUE
  /\ shutdownTask' = ShutdownLoop([shutdownTask EXCEPT !.startTime = now],
                                  inFlightRequests, now)
  /\ UNCHANGED <<trackedServices, roundRobinPointer, inFlightRequests, now,
                 toggles, lastModels, healthLog, lastToggle, req>>

\* SIGTERM or SIGINT: shutdown(signal) up to its first await or to the exit.
\* A second signal finds isShuttingDown set and returns at once.
Signal ==
  IF isShuttingDown THEN UNCHANGED vars
  ELSE
    /\ isShuttingDown' = TRUE
    /\ shutdownTask' = ShutdownLoop([shutdownTask EXCEPT !.startTime = now],
                                    inFlightRequests, now)
    /\ UNCHANGED <<trackedServices, roundRobinPointer, inFlightRequests, now,
                   toggles, lastModels, healthLog, lastToggle, req>>

\* "await sleep(100)" of the wait loop resolved.
ShutdownWake ==
  /\ shutdownTask.pc = "sleeping"
  /\ now >= shutdownTask.sleepUntil
  /\ shutdownTask' = ShutdownLoop(shutdownTask, inFlightRequests, now)
  /\ UNCHANGED <<trackedServices, roundRobinPointer, inFlightRequests,
                 isShuttingDown, now, toggles, lastModels, healthLog, lastToggle, req>>

\* process.exit(0) was called: nothing runs any more.
Exited == shutdownTask.pc = "exited"

\* ---------------------------------------------------------------------
\* SpecServer: one chat request together with everything else the server
\* does: toggles, /v1/models, the shutdown signal, the clock.

InitServer ==
  /\ trackedServices = [i \in Services |-> NewTracked]
  /\ roundRobinPointer = 0
  /\ inFlightRequests = 0
  /\ isShuttingDown = FALSE
  /\ shutdownTask = NotStarted
  /\ now = StartTime
  /\ toggles = 0
  /\ lastModels = NoResponse
  /\ healthLog = <<>>
  /\ lastToggle = NoToggle
  /\ req = [r \in Requests |-> NewRequest]

NextServer ==
  \/ \E r \in Requests :
       \/ ~Exited /\ Arrive(r)
       \/ ~Exited /\ InvalidBody(r)
       \/ ~Exited /\ BodyParsed(r)
       \/ ~Exited /\ ReprobeWake(r)
       \/ ~Exited /\ BackoffWake(r)
       \/ ~Exited /\ FirstResult(r)
       \/ ~Exited /\ NextResult(r)
       \/ ~Exited /\ NsBackoffWake(r)
       \/ ~Exited /\ NsResult(r)
       \/ ~Exited /\ ClientAbort(r)
       \/ ~Exited /\ Cancel(r)
  \/ \E i \in Services, e \in BOOLEAN : ~Exited /\ Toggle(i, e)
  \/ ~Exited /\ Models
  \/ ~Exited /\ ModelsDelivered
  \/ ~Exited /\ Tick
  \/ Signal
  \/ ShutdownWake

SpecServer == InitServer /\ [][NextServer]_vars

\* ---------------------------------------------------------------------
\* SpecBreaker: the circuit breaker of one upstream.  Streaming requests
\* arrive one after the other while this upstream is the only candidate;
\* each is dispatched and its adapter call fails or ends at once, in the
\* millisecond of the dispatch.  /v1/models reads availability in between.

BreakerService == CHOOSE i \in Services : \A j \in Services : i <= j

\* The request selects upstream i (its availability check), dispatches, and
\* the adapter call throws before the first chunk.
AttemptFails(i) ==
  /\ trackedServices[i].metrics.totalRequests < MaxTotal
  /\ trackedServices[i].enabled
  /\ LET c == IsServiceAvailable(trackedServices[i], now)
     IN /\ c.ok
        /\ trackedServices' =
             [trackedServices EXCEPT
                ![i] = TrackedFailure(TrackedDispatch(c.tracked), now, now)]
  /\ UNCHANGED <<roundRobinPointer, inFlightRequests, isShuttingDown, shutdownTask, now,
                 toggles, lastModels, healthLog, lastToggle, req>>

\* ... and the adapter call ends normally.
AttemptSucceeds(i) ==
  /\ trackedServices[i].metrics.totalRequests < MaxTotal
  /\ trackedServices[i].enabled
  /\ LET c == IsServiceAvailable(trackedServices[i], now)
     IN /\ c.ok
        /\ trackedServices' =
             [trackedServices EXCEPT
                ![i] = TrackedSuccess(TrackedDispatch(c.tracked), now, now)]
  /\ UNCHANGED <<roundRobinPointer, inFlightRequests, isShuttingDown, shutdownTask, now,
                 toggles, lastModels, healthLog, lastToggle, req>>

InitBreaker ==
  /\ trackedServices = [i \in Services |-> NewTracked]
  /\ roundRobinPointer = 0
  /\ inFlightRequests = 0
  /\ isShuttingDown = FALSE
  /\ shutdownTask = NotStarted
  /\ now = StartTime
  /\ toggles = 0
  /\ lastModels = NoResponse
  /\ healthLog = <<>>
  /\ lastToggle = NoToggle
  /\ req = [r \in Requests |-> NewRequest]

NextBreaker ==
  \/ AttemptFails(BreakerService)
  \/ AttemptSucceeds(BreakerService)
  \/ Models
  \/ ModelsDelivered
  \/ \E e \in BOOLEAN : Toggle(BreakerService, e)
  \/ Tick

SpecBreaker == InitBreaker /\ [][NextBreaker]_vars

\* ---------------------------------------------------------------------
\* SpecToggle: toggle requests with every body between the attempts on one
\* upstream.

NextToggle ==
  \/ AttemptFails(BreakerService)
  \/ AttemptSucceeds(BreakerService)
  \/ \E body \in ToggleBodies : ToggleRequest(body)
  \/ Tick

SpecToggle == InitBreaker /\ [][NextToggle]_vars

\* ---------------------------------------------------------------------
\* SpecHealth: GET /health between the attempts on one upstream, which fail
\* or end in the millisecond of their dispatch, as the clock advances.

NextHealth ==
  \/ AttemptFails(BreakerService)
  \/ AttemptSucceeds(BreakerService)
  \/ Health
  \/ Tick

SpecHealth == InitBreaker /\ [][NextHealth]_vars

\* ---------------------------------------------------------------------
\* SpecScore: calculateHealthScore applied, by GET /health, to one upstream
\* in every state of its counters and its breaker, while the other upstreams
\* are new.

\* totalLatencyMs / totalRequests of the scored upstream.
Latencies == {0, 2500, 10000}

\* lastErrorTime of an upstream that recorded a failure: now, half a penalty
\* duration ago, a whole one ago.
ErrorTimes == {StartTime, StartTime - errorPenaltyDurationMs \div 2,
               StartTime - errorPenaltyDurationMs}

\* Tracked upstreams with n attempts of which sc succeeded and the others
\* failed, the last failure at time e, each attempt taking lat ms; the
\* breaker has left CLOSED only after failureThreshold failures.
ScoreInputs ==
  {[metrics |-> [totalRequests |-> x[1], successCount |-> x[2],
                 failCount |-> x[1] - x[2], totalLatencyMs |-> x[1] * x[3],
                 lastError |-> IF x[1] = x[2] THEN "undefined" ELSE "error",
                 lastErrorTime |-> x[4]],
    circuitBreaker |-> [state |-> x[5],
                        failures |-> IF x[5] = "CLOSED"
                                     THEN Min(x[1] - x[2], failureThreshold - 1)
                                     ELSE failureThreshold,
                        lastFailureTime |-> x[4], halfOpenAttempts |-> 0,
                        openedAt |-> IF x[5] = "CLOSED" THEN Undefined ELSE x[4]],
    enabled |-> TRUE] :
   x \in {y \in (0 .. MaxTotal) \X (0 .. MaxTotal) \X Latencies
                 \X (ErrorTimes \cup {Undefined})
                 \X {"CLOSED", "OPEN", "HALF_OPEN"} :
            /\ y[2] <= y[1]
            /\ (y[4] = Undefined) <=> (y[1] = y[2])
            /\ y[5] # "CLOSED" => y[1] - y[2] >= failureThreshold}}

InitScore ==
  /\ trackedServices \in
       {[j \in Services |-> IF j = i THEN x ELSE NewTracked] :
          i \in Services, x \in ScoreInputs}
  /\ roundRobinPointer = 0
  /\ inFlightRequests = 0
  /\ isShuttingDown = FALSE
  /\ shutdownTask = NotStarted
  /\ now = StartTime
  /\ toggles = 0
  /\ lastModels = NoResponse
  /\ healthLog = <<>>
  /\ lastToggle = NoToggle
  /\ req = [r \in Requests |-> NewRequest]

NextScore ==
  \/ Health
  \/ Tick

SpecScore == InitScore /\ [][NextScore]_vars

\* ---------------------------------------------------------------------
\* SpecSelector: getNextService applied to pools in every breaker state.

SelectorTime == BootTime + 2 * TickMs

\* The tracked states a pool holds two clock steps after its creation: never
\* used; tripped at creation (the reset timeout has elapsed) or one step
\* later (it has not); half-open after the check, before and after the probe
\* was dispatched; closed again after the probe succeeded.
HalfOpenTracked == IsServiceAvailable(TrippedAt(BootTime), SelectorTime).tracked
ProbingTracked == TrackedDispatch(HalfOpenTracked)
RecoveredTracked == TrackedSuccess(ProbingTracked, SelectorTime, SelectorTime)

SelectorInputs ==
  LET base == {NewTracked, TrippedAt(BootTime), TrippedAt(StartTime),
               HalfOpenTracked, ProbingTracked, RecoveredTracked}
  IN {[b EXCEPT !.enabled = e] : b \in base, e \in BOOLEAN}

\* One call getNextService(triedIndices, routingMode); the caller keeps the
\* result in tracked.
SelectorCall(r) ==
  /\ req[r].selectorCalls < MaxSelects
  /\ \E u \in 0 .. (RandomSteps - 1) :
       LET sel == GetNextService(trackedServices, roundRobinPointer,
                                 req[r].triedIndices, req[r].routingMode, u, now)
       IN /\ trackedServices' = sel.ts
          /\ roundRobinPointer' = sel.rr
          /\ req' = [req EXCEPT ![r].tracked = sel.choice,
                                ![r].selectorCalls = @ + 1]
  /\ UNCHANGED <<inFlightRequests, isShuttingDown, shutdownTask, now, toggles, lastModels, healthLog, lastToggle>>

InitSelector ==
  /\ trackedServices \in [Services -> SelectorInputs]
  /\ roundRobinPointer \in Services
  /\ inFlightRequests = 0
  /\ isShuttingDown = FALSE
  /\ shutdownTask = NotStarted
  /\ now = SelectorTime
  /\ toggles = 0
  /\ lastModels = NoResponse
  /\ healthLog = <<>>
  /\ lastToggle = NoToggle
  /\ req \in [Requests -> {[NewRequest EXCEPT !.triedIndices = ex, !.routingMode = m] :
                             ex \in SUBSET Services, m \in RoutingModes}]

NextSelector ==
  \/ \E r \in Requests : SelectorCall(r)
  \/ Tick

SpecSelector == InitSelector /\ [][NextSelector]_vars

\* ---------------------------------------------------------------------
\* SpecConcurrent: two clients whose chat requests are served concurrently,
\* their handler steps interleaved at the awaits.  No client disconnects and
\* no upstream is toggled.

Clients == {"r1", "r2"}

InitConcurrent ==
  /\ trackedServices \in [Services -> {NewTracked, TrippedTracked}]
  /\ roundRobinPointer = 0
  /\ inFlightRequests = 0
  /\ isShuttingDown = FALSE
  /\ shutdownTask = NotStarted
  /\ now = StartTime
  /\ toggles = 0
  /\ lastModels = NoResponse
  /\ healthLog = <<>>
  /\ lastToggle = NoToggle
  /\ req = [r \in Clients |-> NewRequest]

NextConcurrent ==
  \/ \E r \in Clients :
       \/ Arrive(r) \/ InvalidBody(r) \/ BodyParsed(r)
       \/ ReprobeWake(r) \/ BackoffWake(r) \/ FirstResult(r) \/ NextResult(r)
       \/ NsBackoffWake(r) \/ NsResult(r)
  \/ Tick

SpecConcurrent == InitConcurrent /\ [][NextConcurrent]_vars

\* ---------------------------------------------------------------------
\* SpecLate: two concurrent chat requests on a pool whose first upstream is
\* one failure short of opening and whose other upstreams opened when the
\* pool was created: an attempt dispatched before a breaker opens reports
\* its outcome after it has opened.

\* A tracked upstream after n attempts that all failed in millisecond t0.
RECURSIVE AfterFailures(_, _)
AfterFailures(n, t0) ==
  IF n = 0 THEN NewTracked
  ELSE TrackedFailure(TrackedDispatch(AfterFailures(n - 1, t0)), t0, t0)

NearlyTripped == AfterFailures(failureThreshold - 1, BootTime)

InitLate ==
  /\ trackedServices =
       [i \in Services |-> IF i = BreakerService THEN NearlyTripped ELSE TrippedTracked]
  /\ roundRobinPointer = 0
  /\ inFlightRequests = 0
  /\ isShuttingDown = FALSE
  /\ shutdownTask = NotStarted
  /\ now = StartTime
  /\ toggles = 0
  /\ lastModels = NoResponse
  /\ healthLog = <<>>
  /\ lastToggle = NoToggle
  /\ req = [r \in Clients |-> NewRequest]

NextLate ==
  \/ \E r \in Clients :
       \/ Arrive(r) \/ InvalidBody(r) \/ BodyParsed(r)
       \/ ReprobeWake(r) \/ BackoffWake(r) \/ FirstResult(r) \/ NextResult(r)
       \/ NsBackoffWake(r) \/ NsResult(r)
  \/ Tick

SpecLate == InitLate /\ [][NextLate]_vars

\* SpecWindow: one chat request, other clients' requests whose attempt on the
\* first upstream fails in the millisecond it is dispatched, and
\* GET /v1/models, on a new pool.
NextWindow ==
  \/ \E r \in Requests : RequestStep(r)
  \/ AttemptFails(BreakerService)
  \/ Models
  \/ ModelsDelivered
  \/ Tick

SpecWindow == InitBreaker /\ [][NextWindow]_vars

\* ---------------------------------------------------------------------
\* SpecDrain: the shutdown signal while chat requests come and go.  The
\* first client's requests run the whole handler; a second client sends
\* bodies that are no valid message list.  No client disconnects.

InitDrain ==
  /\ trackedServices \in [Services -> {NewTracked, TrippedTracked}]
  /\ roundRobinPointer = 0
  /\ inFlightRequests = 0
  /\ isShuttingDown = FALSE
  /\ shutdownTask = NotStarted
  /\ now = StartTime
  /\ toggles = 0
  /\ lastModels = NoResponse
  /\ healthLog = <<>>
  /\ lastToggle = NoToggle
  /\ req = [r \in Clients |-> NewRequest]

NextDrain ==
  \/ \E r \in Clients :
       \/ ~Exited /\ Arrive(r)
       \/ ~Exited /\ InvalidBody(r)
  \/ \E r \in Requests :
       \/ ~Exited /\ BodyParsed(r)
       \/ ~Exited /\ ReprobeWake(r)
       \/ ~Exited /\ BackoffWake(r)
       \/ ~Exited /\ FirstResult(r)
       \/ ~Exited /\ NextResult(r)
       \/ ~Exited /\ NsBackoffWake(r)
       \/ ~Exited /\ NsResult(r)
  \/ ~Exited /\ Tick
  \/ Signal
  \/ ShutdownWake

SpecDrain == InitDrain /\ [][NextDrain]_vars

\* ---------------------------------------------------------------------
\* SpecShutdown: the shutdown wait on the scale of its 100 ms poll.  One chat
\* request is served meanwhile: an invalid body may arrive at any time, a
\* valid one arrives before the signal or never, and each upstream answers
\* in the millisecond of its dispatch or never.  The clock
\* moves by one poll interval, and a timer that is due fires before the
\* clock moves on (handler steps take no time on this scale).  After the
\* signal the clock is followed until one interval past the timeout.

ShutdownHorizon ==
  IF isShuttingDown
  THEN shutdownTask.startTime + shutdownTimeoutMs + shutdownPollMs
  ELSE StartTime + MaxLeadPolls * shutdownPollMs

\* A sleep of the shutdown or of a request has run out.
TimerDue ==
  \/ shutdownTask.pc = "sleeping" /\ now >= shutdownTask.sleepUntil
  \/ \E r \in DOMAIN req :
       /\ req[r].pc \in {"reprobeSleep", "backoff", "nsBackoff"}
       /\ now >= req[r].sleepUntil

PollTick ==
  /\ ~Exited
  /\ now + shutdownPollMs <= ShutdownHorizon
  /\ ~TimerDue
  /\ now' = now + shutdownPollMs
  /\ UNCHANGED <<trackedServices, roundRobinPointer, inFlightRequests,
                 isShuttingDown, shutdownTask, toggles, lastModels, healthLog, lastToggle, req>>

\* The upstream of request r answers now, in the millisecond of the dispatch.
Prompt(r) == now = req[r].startTime

InitShutdown ==
  /\ trackedServices \in [Services -> {NewTracked, TrippedTracked}]
  /\ roundRobinPointer = 0
  /\ inFlightRequests = 0
  /\ isShuttingDown = FALSE
  /\ shutdownTask = NotStarted
  /\ now = StartTime
  /\ toggles = 0
  /\ lastModels = NoResponse
  /\ healthLog = <<>>
  /\ lastToggle = NoToggle
  /\ req = [r \in Requests |-> NewRequest]

NextShutdown ==
  \/ \E r \in Requests :
       \/ ~Exited /\ Arrive(r)
       \/ ~Exited /\ InvalidBody(r)
       \/ ~Exited /\ ~isShuttingDown /\ BodyParsed(r)
       \/ ~Exited /\ ReprobeWake(r)
       \/ ~Exited /\ BackoffWake(r)
       \/ ~Exited /\ NsBackoffWake(r)
       \/ ~Exited /\ Prompt(r) /\ FirstResult(r)
       \/ ~Exited /\ Prompt(r) /\ NextResult(r)
       \/ ~Exited /\ Prompt(r) /\ NsResult(r)
  \/ Signal
  \/ ShutdownWake
  \/ PollTick

\* Timers and the clock are not starved: the runtime fires a due timer, and
\* time passes.
SpecShutdown ==
  /\ InitShutdown
  /\ [][NextShutdown]_vars
  /\ WF_vars(ShutdownWake)
  /\ WF_vars(PollTick)
  /\ WF_vars(~Exited /\ \E r \in Requests :
               ReprobeWake(r) \/ BackoffWake(r) \/ NsBackoffWake(r))

\* ---------------------------------------------------------------------
\* SpecRoundRobin: getNextService called again and again in round-robin mode
\* on a pool of RingSize upstreams, with the same excluded set every time.
\* Nothing is dispatched, toggled or timed in between, so the candidates
\* stay the same from call to call.

Ring == 0 .. (RingSize - 1)

\* One call getNextService(triedIndices, 'round-robin'); Math.random() is not
\* called in this mode.
RoundRobinCall(r) ==
  /\ Len(req[r].selections) < MaxRounds
  /\ LET sel == GetNextService(trackedServices, roundRobinPointer,
                               req[r].triedIndices, req[r].routingMode, 0, now)
     IN /\ trackedServices' = sel.ts
        /\ roundRobinPointer' = sel.rr
        /\ req' = [req EXCEPT ![r].tracked = sel.choice,
                              ![r].selectorCalls = @ + 1,
                              ![r].selections = Append(@, sel.choice)]
  /\ UNCHANGED <<inFlightRequests, isShuttingDown, shutdownTask, now, toggles, lastModels, healthLog, lastToggle>>

InitRoundRobin ==
  /\ trackedServices \in [Ring -> {NewTracked, [NewTracked EXCEPT !.enabled = FALSE],
                                   TrippedTracked}]
  /\ roundRobinPointer \in Ring
  /\ inFlightRequests = 0
  /\ isShuttingDown = FALSE
  /\ shutdownTask = NotStarted
  /\ now = StartTime
  /\ toggles = 0
  /\ lastModels = NoResponse
  /\ healthLog = <<>>
  /\ lastToggle = NoToggle
  /\ req \in [Requests -> {[NewRequest EXCEPT !.triedIndices = ex,
                                              !.routingMode = "round-robin"] :
                             ex \in SUBSET Ring}]

NextRoundRobin == \E r \in Requests : RoundRobinCall(r)

SpecRoundRobin == InitRoundRobin /\ [][NextRoundRobin]_vars

\* ---------------------------------------------------------------------
\* SpecSmart: getNextService in smart mode, Math.random() drawn on a grid of
\* DrawSteps values, on pools that hold well and badly scored upstreams.

\* A tracked upstream with health score 0 at SelectorTime while CLOSED: its
\* first attempt failed after a clock step, the second succeeded at once,
\* the third failed a clock step after its dispatch, at SelectorTime.
PoorTracked ==
  TrackedFailure(
    TrackedDispatch(
      TrackedSuccess(
        TrackedDispatch(TrackedFailure(TrackedDispatch(NewTracked), BootTime, StartTime)),
        StartTime, StartTime)),
    StartTime, SelectorTime)

\* One call getNextService(triedIndices, routingMode) with Math.random() =
\* u / DrawSteps.
SmartCall(r) ==
  /\ req[r].selectorCalls < MaxSelects
  /\ \E u \in 0 .. (DrawSteps - 1) :
       LET sel == GetNextServiceDrawn(trackedServices, roundRobinPointer,
                                      req[r].triedIndices, req[r].routingMode,
                                      u, DrawSteps, now)
       IN /\ trackedServices' = sel.ts
          /\ roundRobinPointer' = sel.rr
          /\ req' = [req EXCEPT ![r].tracked = sel.choice,
                                ![r].selectorCalls = @ + 1]
  /\ UNCHANGED <<inFlightRequests, isShuttingDown, shutdownTask, now, toggles, lastModels, healthLog, lastToggle>>

InitSmart ==
  /\ trackedServices \in [Services -> {NewTracked, HalfOpenTracked, PoorTracked}]
  /\ roundRobinPointer = 0
  /\ inFlightRequests = 0
  /\ isShuttingDown = FALSE
  /\ shutdownTask = NotStarted
  /\ now = SelectorTime
  /\ toggles = 0
  /\ lastModels = NoResponse
  /\ healthLog = <<>>
  /\ lastToggle = NoToggle
  /\ req \in [Requests -> {[NewRequest EXCEPT !.triedIndices = ex] :
                             ex \in SUBSET Services}]

NextSmart ==
  \/ \E r \in Requests : SmartCall(r)
  \/ Tick

SpecSmart == InitSmart /\ [][NextSmart]_vars

\* ---------------------------------------------------------------------
\* SpecFastest: getNextService in fastest mode on pools that hold new,
\* half-open, recovered and badly scored upstreams.

InitFastest ==
  /\ trackedServices \in
       [Services -> {NewTracked, HalfOpenTracked, RecoveredTracked, PoorTracked}]
  /\ roundRobinPointer = 0
  /\ inFlightRequests = 0
  /\ isShuttingDown = FALSE
  /\ shutdownTask = NotStarted
  /\ now = SelectorTime
  /\ toggles = 0
  /\ lastModels = NoResponse
  /\ healthLog = <<>>
  /\ lastToggle = NoToggle
  /\ req \in [Requests -> {[NewRequest EXCEPT !.triedIndices = ex,
                                               !.routingMode = "fastest"] :
                             ex \in SUBSET Services}]

NextFastest ==
  \/ \E r \in Requests : SelectorCall(r)
  \/ Tick

SpecFastest == InitFastest /\ [][NextFastest]_vars

\* ------------------------------------------------------------ helpers

IsChunk(f) == f[1] = "chunk"
ChunkFrames(r) == SelectSeq(req[r].out, IsChunk)
Range(q) == {q[k] : k \in 1 .. Len(q)}
NoDuplicates(q) == \A a, b \in 1 .. Len(q) : a # b => q[a] # q[b]
Last(q) == q[Len(q)]

RECURSIVE SumOver(_, _)
SumOver(S, f) ==
  IF S = {} THEN 0
  ELSE LET x == CHOOSE y \in S : TRUE IN f[x] + SumOver(S \ {x}, f)

\* This step runs the catch block of request r's current attempt.
StepRecordsFailure(r) == Len(req'[r].failureOn) = Len(req[r].failureOn) + 1

\* ------------------------------------------------- the failover loop

\* The positions of the non-empty values in the sequence gen, in order.
NonEmptyPositions(gen) ==
  LET IsNonEmpty(k) == gen[k] = "chunk"
  IN SelectSeq([k \in 1 .. Len(gen) |-> k], IsNonEmpty)

\* C1: the chunk frames a streaming request emitted all name one upstream,
\* and they are the non-empty values of that upstream's sequence so far, each
\* once and in order: no chunk of another upstream the request attempted is
\* emitted.
C1_SingleUpstreamChunks ==
  \A r \in Requests :
    LET c == ChunkFrames(r)
    IN c # <<>> =>
         /\ \A k \in 1 .. Len(c) : c[k][2] = c[1][2]
         /\ c[1][2] = req[r].tracked
         /\ [k \in 1 .. Len(c) |-> c[k][3]] = NonEmptyPositions(req[r].gen)

\* A request that failed over and then streamed at least two chunks.
C1_Witness ==
  \E r \in Requests : Len(req[r].attempts) >= 2 /\ Len(ChunkFrames(r)) >= 2

\* C2: when the upstream of a committed request (started) fails, the step
\* that records the failure adds one to that upstream's failCount, stamps its
\* breaker, and ends the handler without another selector call, sleep or
\* attempt; an ended handler never moves again.
C2_CommittedFailureEndsLoop ==
  [][\A r \in Requests :
       /\ (req[r].started /\ StepRecordsFailure(r)) =>
            LET i == req[r].tracked IN
            /\ Last(req'[r].failureOn) = i
            /\ trackedServices'[i].metrics.failCount
                 = trackedServices[i].metrics.failCount + 1
            /\ trackedServices'[i].circuitBreaker.lastFailureTime = now
            /\ req'[r].pc = "done"
            /\ req'[r].selectorCalls = req[r].selectorCalls
            /\ req'[r].sleeps = req[r].sleeps
            /\ req'[r].attempts = req[r].attempts
       /\ req[r].pc = "done" => req'[r] = req[r]]_vars

\* A request that ended after the upstream it had streamed a chunk of failed.
C2_Witness ==
  \E r \in Requests :
    /\ req[r].pc = "done" /\ req[r].started
    /\ req[r].failureOn # <<>> /\ ChunkFrames(r) # <<>>
    /\ Last(req[r].failureOn) = ChunkFrames(r)[1][2]

\* C3: no streaming request is still waiting for the first result of an
\* attempt once more than FIRST_TOKEN_TIMEOUT_MS passed since its dispatch:
\* the deadline fired and the attempt was recorded as a failure.
C3_FirstTokenDeadline ==
  \A r \in Requests :
    req[r].pc = "awaitFirst" => now - req[r].startTime <= firstTokenTimeoutMs

\* C4: one request records at most one success, and the successCount
\* counters of the pool count exactly the successes the requests recorded.
C4_AtMostOneSuccess ==
  /\ \A r \in Requests : Len(req[r].successOn) <= 1
  /\ SumOver(Services, [i \in Services |-> trackedServices[i].metrics.successCount])
       = SumOver(Requests, [r \in Requests |-> Len(req[r].successOn)])

\* A request that recorded its success after a failover.
C4_Witness ==
  \E r \in Requests : Len(req[r].attempts) >= 2 /\ Len(req[r].successOn) = 1

\* C5: triedIndices only grows; every dispatched attempt targets an index
\* already in triedIndices; no upstream is attempted twice, so a request
\* makes at most trackedServices.length attempts.
C5_TriedIndices ==
  /\ [](\A r \in Requests :
          /\ Range(req[r].attempts) \subseteq req[r].triedIndices
          /\ NoDuplicates(req[r].attempts)
          /\ Len(req[r].attempts) <= NumServices)
  /\ [][\A r \in Requests : req[r].triedIndices \subseteq req'[r].triedIndices]_vars

\* A request that attempted every tracked upstream.
C5_Witness ==
  \E r \in Requests : Len(req[r].attempts) = NumServices

\* C6: a streaming request calls the selector at most trackedCount + 1 times
\* and sleeps at most trackedCount times.
C6_LoopBound ==
  \A r \in Requests :
    req[r].streamRequested =>
      /\ req[r].selectorCalls <= NumServices + 1
      /\ req[r].sleeps <= NumServices

\* C7: a streaming request whose attempts all failed before a chunk, and
\* whose untried upstreams are all disabled, ends when it wakes from the
\* re-probe sleep: one error frame, then [DONE], and no further attempt.
C7_DisabledNotConsidered ==
  [][\A r \in Requests :
       (/\ req[r].pc = "reprobeSleep"
        /\ req'[r] # req[r]
        /\ ~req'[r].aborted
        /\ \A i \in Services \ req[r].triedIndices : ~trackedServices[i].enabled)
       => /\ req'[r].pc = "done"
          /\ req'[r].out = <<ErrorFrame, DoneFrame>>
          /\ req'[r].attempts = req[r].attempts]_vars

\* ------------------------------------------------------ the selector

\* The breaker answered "available" in a selection that found it in cb and
\* left it in cb2.
ReportedAvailable(cb, cb2) ==
  \/ cb.state = "CLOSED"
  \/ /\ cb.state = "OPEN"
     /\ cb.lastFailureTime # Undefined
     /\ now - cb.lastFailureTime >= resetTimeoutMs
     /\ cb2.state = "HALF_OPEN"
  \/ cb.state = "HALF_OPEN" /\ cb.halfOpenAttempts < halfOpenMaxAttempts

\* C8: in every routing mode the upstream the selector returns is not
\* excluded, is enabled, and its breaker reported available in this
\* selection; the selector returns none exactly when no upstream is so.
C8_SelectorCandidates ==
  [][\A r \in Requests :
       req'[r].selectorCalls = req[r].selectorCalls + 1 =>
         LET Candidate(i) ==
               /\ i \notin req[r].triedIndices
               /\ trackedServices[i].enabled
               /\ ReportedAvailable(trackedServices[i].circuitBreaker,
                                    trackedServices'[i].circuitBreaker)
             c == req'[r].tracked
         IN /\ c # None => c \in Services /\ Candidate(c)
            /\ c = None <=> ~(\E i \in Services : Candidate(i))]_vars

\* The selector returned an upstream it had just moved to HALF_OPEN while
\* another upstream was disabled and not excluded.
C8_Witness ==
  \E r \in Requests :
    /\ req[r].selectorCalls >= 1
    /\ req[r].tracked # None
    /\ trackedServices[req[r].tracked].circuitBreaker.state = "HALF_OPEN"
    /\ \E j \in Services \ req[r].triedIndices : ~trackedServices[j].enabled

\* ---------------------------------------------------- the breaker

\* This step records a failure / a success on upstream i.
FailureStep(i) ==
  trackedServices'[i].metrics.failCount = trackedServices[i].metrics.failCount + 1
SuccessStep(i) ==
  trackedServices'[i].metrics.successCount
    = trackedServices[i].metrics.successCount + 1

\* C9: in CLOSED every recorded failure adds one to failures and only a
\* success takes one away, the breaker is CLOSED only below FAILURE_THRESHOLD
\* and the failure that reaches it moves the breaker to OPEN, so three
\* failures from failures = 0 with no success between open it; and an OPEN
\* breaker has lastFailureTime defined.
C9_BreakerOpens ==
  /\ [](\A i \in Services :
          LET cb == trackedServices[i].circuitBreaker IN
          /\ cb.state = "OPEN" => cb.lastFailureTime # Undefined
          /\ cb.state = "CLOSED" => cb.failures < failureThreshold)
  /\ [][\A i \in Services :
          LET cb == trackedServices[i].circuitBreaker
              cb2 == trackedServices'[i].circuitBreaker
          IN /\ (cb.state = "CLOSED" /\ FailureStep(i)) =>
                  /\ cb2.failures = cb.failures + 1
                  /\ cb2.lastFailureTime = now
                  /\ cb2.state = IF cb2.failures >= failureThreshold
                                 THEN "OPEN" ELSE "CLOSED"
             /\ (cb.state = "CLOSED" /\ cb2.state = "CLOSED"
                 /\ cb2.failures < cb.failures) => SuccessStep(i)]_vars

\* Three failures and no success: the breaker is OPEN.
C9_Witness ==
  \E i \in Services :
    /\ trackedServices[i].metrics.failCount = failureThreshold
    /\ trackedServices[i].metrics.successCount = 0
    /\ trackedServices[i].circuitBreaker.state = "OPEN"

\* This step answers GET /v1/models.
ModelsStep == ~lastModels.sent /\ lastModels'.sent

\* C10: while now - lastFailureTime < RESET_TIMEOUT_MS an OPEN breaker stays
\* OPEN and an availability check reports unavailable; the availability
\* check made once the timeout has elapsed moves it to HALF_OPEN with
\* halfOpenAttempts = 0 and reports available.
C10_OpenUntilReset ==
  [][\A i \in Services :
       LET cb == trackedServices[i].circuitBreaker
           cb2 == trackedServices'[i].circuitBreaker
       IN cb.state = "OPEN" =>
            IF now - cb.lastFailureTime < resetTimeoutMs
            THEN /\ cb2.state = "OPEN"
                 /\ ModelsStep => ~lastModels'.available[i]
            ELSE (ModelsStep /\ trackedServices[i].enabled) =>
                   /\ cb2.state = "HALF_OPEN"
                   /\ cb2.halfOpenAttempts = 0
                   /\ lastModels'.available[i]]_vars

\* /v1/models reported an upstream available that its check had just moved
\* from OPEN to HALF_OPEN, the reset timeout having elapsed.
C10_Witness ==
  \E i \in Services :
    /\ lastModels.sent /\ lastModels.available[i]
    /\ trackedServices[i].circuitBreaker.state = "HALF_OPEN"
    /\ trackedServices[i].circuitBreaker.halfOpenAttempts = 0
    /\ now - trackedServices[i].circuitBreaker.lastFailureTime >= resetTimeoutMs

\* The attempt of this step finds upstream i HALF_OPEN: it was HALF_OPEN, or
\* it was OPEN and the availability check of the step moved it there.
ProbeStep(i) ==
  LET cb == trackedServices[i].circuitBreaker IN
  \/ cb.state = "HALF_OPEN"
  \/ cb.state = "OPEN" /\ now - cb.lastFailureTime >= resetTimeoutMs

\* C11: a success recorded while the breaker is HALF_OPEN moves it to CLOSED
\* with failures = 0 and halfOpenAttempts = 0.
C11_HalfOpenSuccessCloses ==
  [][\A i \in Services :
       (ProbeStep(i) /\ SuccessStep(i)) =>
         LET cb2 == trackedServices'[i].circuitBreaker
         IN /\ cb2.state = "CLOSED"
            /\ cb2.failures = 0
            /\ cb2.halfOpenAttempts = 0]_vars

\* A breaker that opened after three failures and closed again on the
\* success of its probe.
C11_Witness ==
  \E i \in Services :
    /\ trackedServices[i].metrics.failCount >= failureThreshold
    /\ trackedServices[i].metrics.successCount >= 1
    /\ trackedServices[i].circuitBreaker.state = "CLOSED"
    /\ trackedServices[i].circuitBreaker.failures = 0
    /\ trackedServices[i].circuitBreaker.lastFailureTime # Undefined
    /\ now - trackedServices[i].circuitBreaker.lastFailureTime >= resetTimeoutMs

\* C12: a failure recorded while the breaker is HALF_OPEN moves it to OPEN
\* with lastFailureTime the time of that failure and halfOpenAttempts = 0, and
\* the upstream is unavailable until RESET_TIMEOUT_MS later.
C12_HalfOpenFailureReopens ==
  [][\A i \in Services :
       (ProbeStep(i) /\ FailureStep(i)) =>
         LET cb2 == trackedServices'[i].circuitBreaker
         IN /\ cb2.state = "OPEN"
            /\ cb2.lastFailureTime = now
            /\ cb2.halfOpenAttempts = 0
            /\ ~IsServiceAvailable(trackedServices'[i], now).ok
            /\ ~IsServiceAvailable(trackedServices'[i], now + resetTimeoutMs - 1).ok
            /\ IsServiceAvailable(trackedServices'[i], now + resetTimeoutMs).ok]_vars

\* A breaker that its failed probe opened again: four failures, the last one
\* a reset timeout or more after the boot.
C12_Witness ==
  \E i \in Services :
    /\ trackedServices[i].metrics.failCount = failureThreshold + 1
    /\ trackedServices[i].metrics.successCount = 0
    /\ trackedServices[i].circuitBreaker.state = "OPEN"
    /\ trackedServices[i].circuitBreaker.halfOpenAttempts = 0
    /\ trackedServices[i].circuitBreaker.lastFailureTime = now
    /\ now >= StartTime + resetTimeoutMs

\* This step moves the breaker of upstream i from CLOSED to OPEN.
OpeningStep(i) ==
  /\ trackedServices[i].circuitBreaker.state = "CLOSED"
  /\ trackedServices'[i].circuitBreaker.state = "OPEN"

InFlightOn(r, i) ==
  /\ req[r].pc \in {"awaitFirst", "streaming", "nsAwait"}
  /\ req[r].tracked = i

\* C14: a HALF_OPEN upstream carries at most HALF_OPEN_MAX_ATTEMPTS attempts
\* at a time.  With two clients no upstream collects the three failures that
\* open a CLOSED breaker, so the attempts in flight on a HALF_OPEN upstream
\* were all dispatched since it last entered HALF_OPEN.
C14_HalfOpenProbeCap ==
  \A i \in Services :
    trackedServices[i].circuitBreaker.state = "HALF_OPEN" =>
      Cardinality({r \in DOMAIN req : InFlightOn(r, i)}) <= halfOpenMaxAttempts

\* ------------------------------------------------------- the metrics

\* C15: for every tracked upstream successCount + failCount <= totalRequests,
\* and no step of the server (attempts, selection, toggle, /v1/models,
\* shutdown) lowers totalRequests, successCount, failCount or totalLatencyMs.
C15_CountersMonotone ==
  /\ [](\A i \in Services :
          LET m == trackedServices[i].metrics
          IN m.successCount + m.failCount <= m.totalRequests)
  /\ [][\A i \in Services :
          LET m == trackedServices[i].metrics
              m2 == trackedServices'[i].metrics
          IN /\ m2.totalRequests >= m.totalRequests
             /\ m2.successCount >= m.successCount
             /\ m2.failCount >= m.failCount
             /\ m2.totalLatencyMs >= m.totalLatencyMs]_vars

\* One upstream failed after a measurable time and the attempt on another
\* is counted and not yet classified.
C15_Witness ==
  \E i, j \in Services :
    /\ trackedServices[i].metrics.failCount = 1
    /\ trackedServices[i].metrics.totalLatencyMs > 0
    /\ trackedServices[j].metrics.totalRequests = 1
    /\ trackedServices[j].metrics.successCount + trackedServices[j].metrics.failCount = 0

\* C16: whenever no attempt is in flight on an upstream, every attempt that
\* was counted in totalRequests has been classified as a success or as a
\* failure: successCount + failCount = totalRequests.
C16_EveryAttemptClassified ==
  \A i \in Services :
    (\A r \in DOMAIN req : ~InFlightOn(r, i)) =>
      LET m == trackedServices[i].metrics
      IN m.successCount + m.failCount = m.totalRequests

\* C17: once the client of a streaming request has disconnected (abort
\* signal or stream cancel), no step records a success: no successCount
\* grows and the request notes no success.
C17_NoSuccessAfterDisconnect ==
  [][\A r \in DOMAIN req :
       (req[r].streamRequested /\ req[r].aborted) =>
         /\ req'[r].successOn = req[r].successOn
         /\ \A i \in Services :
              trackedServices'[i].metrics.successCount
                = trackedServices[i].metrics.successCount]_vars

\* ----------------------------------------------------- the lifecycle

\* The chat request r was admitted (inFlightRequests++ ran for it) and has
\* not ended: its response is not complete and its stream is not cancelled.
Unfinished(r) ==
  /\ req[r].pc \notin {"idle", "done"}
  /\ ~req[r].cancelled

\* C18: inFlightRequests equals the number of admitted chat requests that
\* have not ended.
C18_InFlightBalance ==
  inFlightRequests = Cardinality({r \in DOMAIN req : Unfinished(r)})

\* C19: once isShuttingDown is set, a chat request that arrives is answered
\* 503 with Retry-After: 30 in the step of its arrival, nothing else of the
\* handler runs for it (no selector call, no dispatch, no write to the
\* pool), and inFlightRequests never grows.
C19_RejectedWhileShuttingDown ==
  [][isShuttingDown =>
       /\ inFlightRequests' <= inFlightRequests
       /\ \A r \in DOMAIN req :
            (req[r].pc = "idle" /\ req'[r] # req[r]) =>
              /\ req'[r] = [NewRequest EXCEPT !.pc = "done", !.status = 503,
                                              !.retryAfter = 30,
                                              !.body.error = "service_unavailable"]
              /\ inFlightRequests' = inFlightRequests
              /\ trackedServices' = trackedServices
              /\ roundRobinPointer' = roundRobinPointer]_vars

\* A request was answered 503 while the shutdown waited for another one.
C19_Witness ==
  /\ isShuttingDown
  /\ shutdownTask.pc = "sleeping"
  /\ inFlightRequests > 0
  /\ \E r \in DOMAIN req :
       req[r].pc = "done" /\ req[r].status = 503 /\ req[r].retryAfter = 30

\* C20: once the signal has set isShuttingDown the process exits, no later
\* than SHUTDOWN_TIMEOUT_MS (plus one 100 ms poll) after the signal, whatever
\* is in flight.
C20_ShutdownExits ==
  /\ [](isShuttingDown =>
          now - shutdownTask.startTime
            <= IF Exited THEN shutdownTimeoutMs + shutdownPollMs
               ELSE shutdownTimeoutMs)
  /\ (isShuttingDown ~> Exited)

\* The process exited at the timeout with a request still in flight whose
\* upstream had not answered.
C20_Witness ==
  /\ Exited
  /\ inFlightRequests > 0
  /\ now - shutdownTask.startTime >= shutdownTimeoutMs
  /\ \E r \in DOMAIN req : req[r].pc = "awaitFirst"

\* C21: the process exits only with inFlightRequests = 0 or once
\* SHUTDOWN_TIMEOUT_MS have passed since the signal; the steps of shutdown()
\* (the signal, each poll, the exit) change no request and not the in-flight
\* counter; and once isShuttingDown is set it stays set and the start of the
\* wait never moves, whatever signals follow.
C21_ExitOnlyDrainedOrTimedOut ==
  [][/\ (~Exited /\ Exited') =>
          \/ inFlightRequests' = 0
          \/ now' - shutdownTask'.startTime >= shutdownTimeoutMs
     /\ (isShuttingDown' # isShuttingDown \/ shutdownTask' # shutdownTask) =>
          /\ req' = req
          /\ inFlightRequests' = inFlightRequests
     /\ isShuttingDown =>
          /\ isShuttingDown'
          /\ shutdownTask'.startTime = shutdownTask.startTime]_vars

\* The process exited before the timeout, after at least one poll, because
\* the request that was in flight at the signal ended during the wait.
C21_Witness ==
  /\ Exited
  /\ inFlightRequests = 0
  /\ now - shutdownTask.startTime > 0
  /\ now - shutdownTask.startTime < shutdownTimeoutMs
  /\ \E r \in DOMAIN req :
       /\ req[r].pc = "done" /\ req[r].status = 200
       /\ req[r].startTime > shutdownTask.startTime

\* ------------------------------------------------------ the SSE frames

\* The positions of the error frames in the output of request r.
ErrorPositions(r) == {k \in 1 .. Len(req[r].out) : req[r].out[k] = ErrorFrame}

\* The streaming handler of request r ran its failover loop and ended.
StreamEnded(r) ==
  req[r].pc = "done" /\ req[r].streamRequested /\ req[r].status = 200

\* C22: a streaming request emits no error frame while its loop runs; when
\* the loop has exited, its output holds an error frame exactly if started
\* is false and the client did not go away (abort or cancel), and then it
\* holds one, right before the final [DONE].
C22_ErrorFrameOnExhaustion ==
  \A r \in DOMAIN req :
    /\ req[r].pc # "done" => ErrorPositions(r) = {}
    /\ StreamEnded(r) =>
         /\ ErrorPositions(r) # {} <=> (~req[r].started /\ ~req[r].aborted)
         /\ ErrorPositions(r) # {} =>
              /\ ErrorPositions(r) = {Len(req[r].out) - 1}
              /\ Last(req[r].out) = DoneFrame

\* Every upstream was attempted and failed before a chunk, the client still
\* listening: the response is the error frame and [DONE].
C22_Witness ==
  \E r \in DOMAIN req :
    /\ StreamEnded(r) /\ ~req[r].started /\ ~req[r].aborted
    /\ Len(req[r].failureOn) = NumServices
    /\ req[r].out = <<ErrorFrame, DoneFrame>>

\* The positions of the frames of one kind in an output.
PositionsOf(kind, out) == {k \in 1 .. Len(out) : out[k][1] = kind}

\* C23: the output of a streaming request holds at most one metadata frame;
\* the request has then started, the frame names the upstream of its last
\* attempt (the one it committed to), and every chunk frame comes after it
\* and names the same upstream.  A step that records a failure while nothing
\* has started leaves the output without a metadata frame.
C23_SingleMetadataFrame ==
  /\ [](\A r \in DOMAIN req :
          LET out == req[r].out IN
          /\ Cardinality(PositionsOf("metadata", out)) <= 1
          /\ \A k \in PositionsOf("metadata", out) :
               /\ req[r].started
               /\ out[k][2] = Last(req[r].attempts)
               /\ \A c \in PositionsOf("chunk", out) :
                    k < c /\ out[c][2] = out[k][2])
  /\ [][\A r \in DOMAIN req :
          (~req[r].started /\ StepRecordsFailure(r)) =>
            PositionsOf("metadata", req'[r].out) = {}]_vars

\* A request whose first upstream failed before a chunk and whose second
\* upstream streamed two chunks behind its metadata frame.
C23_Witness ==
  \E r \in DOMAIN req :
    /\ req[r].failureOn # <<>>
    /\ Len(req[r].attempts) >= 2
    /\ Len(ChunkFrames(r)) >= 2
    /\ req[r].out[1] = MetadataFrame(Last(req[r].attempts))

\* ------------------------------------------------------- routing modes

\* The candidates of a selector call for request r: not excluded, enabled,
\* breaker available.
Candidates(r) ==
  {i \in DOMAIN trackedServices :
     /\ i \notin req[r].triedIndices
     /\ trackedServices[i].enabled
     /\ IsServiceAvailable(trackedServices[i], now).ok}

\* C24: in round-robin mode with k >= 2 candidates that stay the same, every
\* k consecutive selections are the k candidates, each once.
C24_RoundRobinVisitsAll ==
  \A r \in DOMAIN req :
    LET k == Cardinality(Candidates(r))
        s == req[r].selections
    IN (req[r].routingMode = "round-robin" /\ k >= 2) =>
         \A j \in 1 .. (Len(s) - k + 1) :
           {s[x] : x \in j .. (j + k - 1)} = Candidates(r)

\* Upstream i is a candidate of the selector call this step makes for request
\* r: not excluded, enabled, and its breaker reported available.
StepCandidate(r, i) ==
  /\ i \notin req[r].triedIndices
  /\ trackedServices[i].enabled
  /\ ReportedAvailable(trackedServices[i].circuitBreaker,
                       trackedServices'[i].circuitBreaker)

\* The health score of upstream i after this step is greater than that of j.
ScoresHigher(i, j) ==
  ScoreGreater(trackedServices'[i], Provider(i), trackedServices'[j], Provider(j), now)

\* C25: a selector call in fastest mode with two candidates or more returns a
\* candidate that no candidate outscores, and every candidate with the same
\* score has a larger index.
C25_FastestPicksTop ==
  [][\A r \in DOMAIN req :
       (/\ req'[r].selectorCalls = req[r].selectorCalls + 1
        /\ req[r].routingMode = "fastest"
        /\ Cardinality({i \in Services : StepCandidate(r, i)}) >= 2)
       => LET c == req'[r].tracked
          IN /\ c \in Services /\ StepCandidate(r, c)
             /\ \A j \in Services :
                  (StepCandidate(r, j) /\ j # c) =>
                    /\ ~ScoresHigher(j, c)
                    /\ ~ScoresHigher(c, j) => c < j]_vars

\* A fastest-mode call returned upstream 1, never used, although upstream 0,
\* HALF_OPEN and not yet probed, was a candidate too.
C25_Witness ==
  \E r \in DOMAIN req :
    /\ req[r].routingMode = "fastest"
    /\ req[r].selectorCalls >= 1
    /\ req[r].triedIndices = {}
    /\ req[r].tracked = 1
    /\ trackedServices[1].circuitBreaker.state = "CLOSED"
    /\ trackedServices[0].enabled
    /\ trackedServices[0].circuitBreaker.state = "HALF_OPEN"
    /\ trackedServices[0].circuitBreaker.halfOpenAttempts < halfOpenMaxAttempts

\* The candidates of the selector call this step makes for request r.
StepCandidates(r) == {i \in Services : StepCandidate(r, i)}

\* What the weighted draw over the candidates cand, sorted as order, returns
\* as Math.random() runs over its DrawSteps values.
DrawOutcomes(order, cand, ts, t) ==
  {WeightedPick(order, cand, ts, u, DrawSteps, t) : u \in 0 .. (DrawSteps - 1)}

\* Every candidate weighs 0.1 or more.
WeightsFloored(cand, ts, t) ==
  \A c \in cand : 10 * Weight(c, cand, ts, t) >= ScoreUnit * ProdK(cand, ts)

\* The pool as the availability checks of a selector call for request r,
\* made now, leave it.
Checked(r) ==
  [i \in DOMAIN trackedServices |->
     IF i \notin req[r].triedIndices /\ trackedServices[i].enabled
     THEN IsServiceAvailable(trackedServices[i], now).tracked
     ELSE trackedServices[i]]

\* C26: a selector call in smart mode with two candidates or more returns a
\* candidate; and whenever a request in smart mode has two candidates or
\* more, every candidate has a weight of 0.1 or more, and for every candidate
\* there is a value of Math.random() for which the draw returns it.
C26_SmartDrawsAnyCandidate ==
  /\ [][\A r \in DOMAIN req :
          (/\ req'[r].selectorCalls = req[r].selectorCalls + 1
           /\ req[r].routingMode = "smart"
           /\ Cardinality(StepCandidates(r)) >= 2)
          => req'[r].tracked \in StepCandidates(r)]_vars
  /\ [](\A r \in DOMAIN req :
          (req[r].routingMode = "smart" /\ Cardinality(Candidates(r)) >= 2)
          => /\ WeightsFloored(Candidates(r), Checked(r), now)
             /\ DrawOutcomes(ScoredOrder(Candidates(r), Checked(r), now),
                             Candidates(r), Checked(r), now)
                  = Candidates(r))

\* A smart-mode call returned an upstream whose health score is 0 although a
\* never-used upstream was a candidate too.
C26_Witness ==
  \E r \in DOMAIN req : \E i, j \in Services :
    /\ req[r].routingMode = "smart"
    /\ req[r].selectorCalls >= 1
    /\ req[r].triedIndices = {}
    /\ req[r].tracked = i
    /\ trackedServices[i] = PoorTracked
    /\ ScoreNum(trackedServices[i], Provider(i), now) = 0
    /\ trackedServices[j] = NewTracked

\* ------------------------------------------------------ the health score

ProviderKinds == {"cerebras", "groq", "openrouter", "gemini"}

\* The score sc of a tracked upstream is what the claim allows: in [0, 1],
\* 0 when the breaker is OPEN, 0.1 when it is HALF_OPEN.
ScoreAllowed(tracked, sc) ==
  /\ 0 <= sc.num /\ sc.num <= sc.den
  /\ tracked.circuitBreaker.state = "OPEN" => sc.num = 0
  /\ tracked.circuitBreaker.state = "HALF_OPEN" => 10 * sc.num = sc.den

\* C27: every score GET /health computed lies in [0, 1], is 0 for an OPEN
\* breaker and 0.1 for a HALF_OPEN one; and so does the score of every
\* tracked upstream of the pool, now, for every provider kind.
C27_ScoreInUnitInterval ==
  /\ \A k \in 1 .. Len(healthLog) : \A i \in DOMAIN healthLog[k].pool :
       ScoreAllowed(healthLog[k].pool[i], healthLog[k].score[i])
  /\ \A i \in DOMAIN trackedServices : \A p \in ProviderKinds :
       ScoreAllowed(trackedServices[i], HealthScore(trackedServices[i], p, now))

\* GET /health scored 0 an upstream with a CLOSED breaker whose attempts all
\* failed, slowly, the last one just now: the sum of the terms is negative.
C27_Witness ==
  \E k \in 1 .. Len(healthLog) : \E i \in DOMAIN healthLog[k].pool :
    LET tr == healthLog[k].pool[i] IN
    /\ tr.circuitBreaker.state = "CLOSED"
    /\ tr.metrics.totalRequests >= minRequestsForScoring
    /\ tr.metrics.successCount = 0
    /\ tr.metrics.totalLatencyMs >= 5000 * tr.metrics.totalRequests
    /\ tr.metrics.lastErrorTime = healthLog[k].at
    /\ healthLog[k].score[i].num = 0

\* Entries k and k + 1 of the health log read the same metrics and breaker
\* of upstream i: nothing updated them in between.
SameSnapshot(k, i) ==
  /\ healthLog[k].pool[i].metrics = healthLog[k + 1].pool[i].metrics
  /\ healthLog[k].pool[i].circuitBreaker = healthLog[k + 1].pool[i].circuitBreaker

\* C28 as stated: two consecutive computations of an upstream's score with no
\* update in between return the same value, also when time has advanced.
C28_ScoreIndependentOfTime ==
  \A k \in 1 .. (Len(healthLog) - 1) : \A i \in Services :
    SameSnapshot(k, i) => healthLog[k].score[i] = healthLog[k + 1].score[i]

\* The recent-error penalty of a tracked upstream is running at time t.
PenaltyRunning(tracked, t) ==
  /\ tracked.circuitBreaker.state = "CLOSED"
  /\ tracked.metrics.totalRequests >= minRequestsForScoring
  /\ tracked.metrics.lastErrorTime # Undefined
  /\ t - tracked.metrics.lastErrorTime < errorPenaltyDurationMs

\* C28, amended: two consecutive computations with no update in between
\* return the same value unless time has advanced and, at the first one, the
\* upstream was scored on its metrics with its last error less than
\* ERROR_PENALTY_DURATION_MS old; then the second value is not smaller.
C28_ScoreChangesOnlyByPenaltyDecay ==
  \A k \in 1 .. (Len(healthLog) - 1) : \A i \in Services :
    SameSnapshot(k, i) =>
      /\ healthLog[k + 1].score[i].den = healthLog[k].score[i].den
      /\ healthLog[k + 1].score[i].num >= healthLog[k].score[i].num
      /\ (\/ ~PenaltyRunning(healthLog[k].pool[i], healthLog[k].at)
          \/ healthLog[k + 1].at = healthLog[k].at)
         => healthLog[k].score[i] = healthLog[k + 1].score[i]

\* Two requests a clock step apart scored alike an upstream that is scored
\* on its metrics and whose one error was a penalty duration old at the first.
C28_Witness ==
  /\ Len(healthLog) = 2
  /\ healthLog[2].at > healthLog[1].at
  /\ \E i \in Services :
       /\ SameSnapshot(1, i)
       /\ healthLog[1].pool[i].circuitBreaker.state = "CLOSED"
       /\ healthLog[1].pool[i].metrics.totalRequests >= minRequestsForScoring
       /\ healthLog[1].pool[i].metrics.failCount = 1
       /\ healthLog[1].at - healthLog[1].pool[i].metrics.lastErrorTime
            >= errorPenaltyDurationMs
       /\ healthLog[1].score[i] = healthLog[2].score[i]

\* ------------------------------------------------------------ backoff

\* The delays of the README: 100ms, 200ms, 400ms, 800ms, 1600ms, 2000ms (max).
BackoffTable == <<100, 200, 400, 800, 1600, 2000, 2000>>

\* Request r starts a sleep in this step.
StartsSleep(r) == req'[r].sleeps = req[r].sleeps + 1

\* Request r dispatches an attempt in this step.
Dispatches(r) == Len(req'[r].attempts) = Len(req[r].attempts) + 1

\* C29: calculateBackoffDelay(k) is 100, 200, 400, 800, 1600, 2000, 2000 for
\* k = 1 .. 7; a request sleeps only after an attempt, for the delay of the
\* number of attempts made so far; its first attempt follows no sleep and
\* every later attempt n follows a sleep of backoff(n - 1) that has elapsed.
C29_BackoffSchedule ==
  /\ [](\A k \in 1 .. Len(BackoffTable) :
          CalculateBackoffDelay(k) = BackoffTable[k])
  /\ [][\A r \in Requests :
          /\ StartsSleep(r) =>
               /\ Len(req'[r].attempts) >= 1
               /\ req'[r].sleepUntil - now' = BackoffTable[Len(req'[r].attempts)]
          /\ Dispatches(r) /\ Len(req[r].attempts) = 0 => req[r].sleeps = 0
          /\ Dispatches(r) /\ Len(req[r].attempts) >= 1 =>
               /\ req[r].pc \in {"backoff", "nsBackoff"}
               /\ req[r].sleeps >= 1
               /\ req[r].sleepUntil - BackoffTable[Len(req[r].attempts)] <= now
               /\ now >= req[r].sleepUntil]_vars

\* A request made its second attempt after one sleep.
C29_Witness ==
  \E r \in Requests :
    /\ Len(req[r].attempts) = 2
    /\ req[r].sleeps = 1
    /\ now >= req[r].sleepUntil
    /\ req[r].sleepUntil > StartTime

\* ------------------------------------------- the non-streaming response

\* All of a sequence but its last element.
Front(seq) == SubSeq(seq, 1, Len(seq) - 1)

\* C30: a non-streaming request that was answered got 502 with a
\* gateway_error body exactly when none of its attempts succeeded, and then
\* every attempt it made failed; otherwise it got 200 with the completion of
\* its last attempt, the only one that succeeded.  While its loop runs no
\* attempt has succeeded, and once answered it makes no further attempt.
C30_NonStreaming502IffNoSuccess ==
  /\ [](\A r \in Requests : ~req[r].streamRequested =>
          IF req[r].pc = "done"
          THEN /\ req[r].status \in {200, 502}
               /\ req[r].status = 502 <=> req[r].successOn = <<>>
               /\ req[r].status = 502 =>
                    /\ req[r].body = [NoBody EXCEPT !.error = "gateway_error"]
                    /\ req[r].failureOn = req[r].attempts
               /\ req[r].status = 200 =>
                    /\ req[r].attempts # <<>>
                    /\ req[r].successOn = <<Last(req[r].attempts)>>
                    /\ req[r].failureOn = Front(req[r].attempts)
                    /\ req[r].body =
                         [NoBody EXCEPT !.completion = Last(req[r].attempts)]
          ELSE /\ req[r].successOn = <<>>
               /\ req[r].body = NoBody)
  /\ [][\A r \in Requests :
          req[r].pc = "done" /\ ~req[r].streamRequested =>
            req'[r] = req[r]]_vars

\* A non-streaming request got the completion of the second upstream it
\* tried, after the first one failed.
C30_Witness ==
  \E r \in Requests :
    /\ req[r].pc = "done" /\ ~req[r].streamRequested
    /\ req[r].status = 200
    /\ Len(req[r].attempts) = 2
    /\ Len(req[r].failureOn) = 1

\* ------------------------------------------------------------ the toggle

\* A toggle request is answered in this step.
ToggleStep == toggles' = toggles + 1

\* C31: a toggle request answered 200 sets the enabled flag of the upstream
\* it names and changes nothing else of the pool; one answered 400 or 404
\* changes nothing; no toggle request changes a metric, a breaker, the
\* pointer, the in-flight count or a request.
C31_ToggleFrame ==
  [][ToggleStep =>
       /\ lastToggle'.status \in {200, 400, 404}
       /\ \A i \in Services :
            /\ trackedServices'[i].metrics = trackedServices[i].metrics
            /\ trackedServices'[i].circuitBreaker = trackedServices[i].circuitBreaker
            /\ trackedServices'[i].enabled =
                 IF lastToggle'.status = 200 /\ lastToggle'.name = i
                 THEN lastToggle'.enabled
                 ELSE trackedServices[i].enabled
       /\ lastToggle'.status = 200 => lastToggle'.name \in Services
       /\ UNCHANGED <<roundRobinPointer, inFlightRequests, isShuttingDown,
                      shutdownTask, now, lastModels, healthLog, req>>]_vars

\* A toggle disabled an upstream whose breaker is OPEN after recorded
\* failures, and the breaker and the counters are as they were.
C31_Witness ==
  /\ lastToggle.status = 200
  /\ ~lastToggle.enabled
  /\ ~trackedServices[lastToggle.name].enabled
  /\ trackedServices[lastToggle.name].circuitBreaker.state = "OPEN"
  /\ trackedServices[lastToggle.name].metrics.failCount >= failureThreshold

\* ------------------------------------------ the in-flight count of a stream

\* The request record rq is a chat request answered with a stream.
IsStream(rq) == rq.streamRequested /\ rq.status = 200

\* The stream of rq is over for the counter: its body finished or its
\* consumer cancelled it.
Ended(rq) == rq.pc = "done" \/ rq.cancelled

\* C32: of the steps of a streaming request, the one in which its body
\* finishes or its consumer cancels, whichever is first, lowers
\* inFlightRequests by one, and no other step of it changes the count; so
\* the count is lowered once for it, in either order of the two.
C32_StreamDecrementsOnce ==
  [][\A r \in Requests :
       IsStream(req'[r]) /\ req'[r] # req[r] =>
         inFlightRequests' - inFlightRequests =
           IF ~Ended(req[r]) /\ Ended(req'[r]) THEN -1 ELSE 0]_vars

\* The consumer cancelled a stream and its body finished afterwards.
C32_Witness ==
  \E r \in Requests :
    /\ IsStream(req[r])
    /\ req[r].cancelled
    /\ req[r].pc = "done"
    /\ req[r].attempts # <<>>

\* --------------------------------------------- HALF_OPEN in fastest mode

\* The selector call this step makes for request r has a candidate that is
\* CLOSED, and one that is CLOSED with a health score above 0.1.
ClosedCandidate(r) ==
  \E j \in Services :
    StepCandidate(r, j) /\ trackedServices[j].circuitBreaker.state = "CLOSED"

GoodClosedCandidate(r) ==
  \E j \in Services :
    /\ StepCandidate(r, j)
    /\ trackedServices[j].circuitBreaker.state = "CLOSED"
    /\ 10 * HealthScore(trackedServices[j], Provider(j), now).num
         > HealthScore(trackedServices[j], Provider(j), now).den

\* This step is a fastest-mode selector call for r that returns an upstream
\* whose breaker is HALF_OPEN.
FastestReturnsHalfOpen(r) ==
  /\ req'[r].selectorCalls = req[r].selectorCalls + 1
  /\ req[r].routingMode = "fastest"
  /\ req'[r].tracked \in Services
  /\ trackedServices'[req'[r].tracked].circuitBreaker.state = "HALF_OPEN"

\* C33 as stated: in fastest mode the selector does not return a HALF_OPEN
\* upstream when a CLOSED one is among the candidates.
C33_HalfOpenNeverPreferred ==
  [][\A r \in DOMAIN req : ClosedCandidate(r) => ~FastestReturnsHalfOpen(r)]_vars

\* C33, amended: in fastest mode the selector does not return a HALF_OPEN
\* upstream when a CLOSED one whose health score is above 0.1 is among the
\* candidates.
C33_HalfOpenBelowGoodClosed ==
  [][\A r \in DOMAIN req : GoodClosedCandidate(r) => ~FastestReturnsHalfOpen(r)]_vars

\* A fastest-mode call passed over upstream 0, HALF_OPEN and not yet probed,
\* for upstream 1, CLOSED again after its own probe succeeded.
C33_Witness ==
  \E r \in DOMAIN req :
    /\ req[r].routingMode = "fastest"
    /\ req[r].selectorCalls >= 1
    /\ req[r].triedIndices = {}
    /\ req[r].tracked = 1
    /\ trackedServices[1] = RecoveredTracked
    /\ trackedServices[0] = HalfOpenTracked

\* ------------------------------------------------------- the end of a stream

\* C34: in the output of a streaming request a [DONE] frame is the last
\* frame, so there is at most one and nothing follows it; a frame is added
\* only while the stream is open (not closed by the handler, not cancelled
\* by the consumer) and the handler runs; and when the handler
\* has ended the stream is closed, with [DONE] as its last frame unless the
\* consumer cancelled.
C34_DoneOnceAndLast ==
  /\ [](\A r \in Requests :
          /\ PositionsOf("done", req[r].out) \subseteq {Len(req[r].out)}
          /\ StreamEnded(r) =>
               /\ req[r].controllerClosed
               /\ ~req[r].cancelled =>
                    req[r].out # <<>> /\ Last(req[r].out) = DoneFrame)
  /\ [][\A r \in Requests :
          /\ req[r].controllerClosed \/ req[r].cancelled \/ req[r].pc = "done" =>
               req'[r].out = req[r].out
          /\ req[r].controllerClosed => req'[r].controllerClosed]_vars

\* A committed stream ended after its upstream failed, with [DONE] last.
C34_Witness ==
  \E r \in Requests :
    /\ StreamEnded(r) /\ req[r].started /\ ~req[r].cancelled
    /\ req[r].failureOn # <<>>
    /\ Last(req[r].failureOn) = req[r].tracked
    /\ PositionsOf("chunk", req[r].out) # {}
    /\ PositionsOf("done", req[r].out) = {Len(req[r].out)}

\* C35: inFlightRequests is never negative.
C35_InFlightNonNegative == inFlightRequests >= 0

\* The count is back at zero after a streaming request was cancelled and its
\* generator then finished: cancel() and the finally block both called
\* decrementInFlight.
C35_Witness ==
  /\ inFlightRequests = 0
  /\ \E r \in Requests :
       /\ IsStream(req[r]) /\ req[r].cancelled /\ req[r].pc = "done"
       /\ req[r].hasDecrementedInFlight

\* ------------------------------------------- races with the sleeps

\* C36: no attempt is dispatched to an upstream whose enabled flag is false
\* at the moment of dispatch: a step that opens an attempt of a request (and
\* raises the upstream's totalRequests) opens it on an enabled upstream.
C36_NoDispatchToDisabled ==
  [][\A r \in Requests :
       Dispatches(r) => trackedServices[Last(req'[r].attempts)].enabled]_vars

\* C37: once cancellation has been signalled for a streaming request (the
\* abort event of req.signal or cancel() of the response stream), no step
\* opens a new attempt of that request.
C37_NoDispatchAfterAbort ==
  [][\A r \in Requests :
       req[r].streamRequested /\ req[r].aborted => ~Dispatches(r)]_vars

\* ------------------------------------------- the breaker over time

ProbeDispatched(i) ==
  /\ trackedServices[i].circuitBreaker.state = "HALF_OPEN"
  /\ trackedServices[i].circuitBreaker.halfOpenAttempts >= halfOpenMaxAttempts

\* C38: a HALF_OPEN breaker whose probe has been dispatched (halfOpenAttempts
\* at the cap) eventually leaves HALF_OPEN, whatever the outcome of the probe.
C38_HalfOpenProbeLeaves ==
  \A i \in Services :
    [](ProbeDispatched(i) => <>(trackedServices[i].circuitBreaker.state # "HALF_OPEN"))

\* C39: the only changes of a breaker's state are CLOSED -> OPEN,
\* OPEN -> HALF_OPEN, HALF_OPEN -> CLOSED and HALF_OPEN -> OPEN, in every
\* interleaving of the two requests.
BreakerEdges ==
  {<<"CLOSED", "OPEN">>, <<"OPEN", "HALF_OPEN">>,
   <<"HALF_OPEN", "CLOSED">>, <<"HALF_OPEN", "OPEN">>}

C39_BreakerTransitions ==
  [][\A i \in Services :
       LET a == trackedServices[i].circuitBreaker.state
           b == trackedServices'[i].circuitBreaker.state
       IN a # b => <<a, b>> \in BreakerEdges]_vars

\* The first upstream opened while an attempt dispatched before was pending,
\* that attempt then succeeded and the breaker is still OPEN; another
\* upstream, OPEN when the pool was created, was probed and has closed.
C39_Witness ==
  /\ trackedServices[BreakerService].circuitBreaker.state = "OPEN"
  /\ trackedServices[BreakerService].metrics.successCount = 1
  /\ \E r \in DOMAIN req : BreakerService \in Range(req[r].successOn)
  /\ \E j \in Services \ {BreakerService} :
       trackedServices[j].circuitBreaker.state = "CLOSED"

\* C40: once a breaker has gone OPEN at time t, an availability check at or
\* after t + resetTimeoutMs moves it to HALF_OPEN, whatever was reported in
\* between (here the check of GET /v1/models on an enabled upstream).
C40_OpenWindowFixed ==
  [][\A i \in Services :
       LET cb == trackedServices[i].circuitBreaker
       IN (/\ ModelsStep
           /\ trackedServices[i].enabled
           /\ cb.state = "OPEN"
           /\ now >= cb.openedAt + resetTimeoutMs)
          => trackedServices'[i].circuitBreaker.state = "HALF_OPEN"]_vars

====
